---- MODULE Spec2Model ----
(***************************************************************************)
(* A model of the shop-db2 accounting core (src/shopdb/api.py): the ledger *)
(* tables, the request handlers that create and revoke ledger entries, the *)
(* per-worker database session with commit and rollback, and the financial *)
(* overview computed from the committed tables.                            *)
(***************************************************************************)
EXTENDS Integers, Sequences, FiniteSets, TLC

VARIABLES
    db,       \* the committed database: one sequence of rows per table
    session,  \* per worker: the pending (uncommitted) writes of its session
    pc,       \* per worker: where its current request stands
    last,     \* the response of the request that completed most recently
    toggled,  \* per ledger row: the revoke requests answered with success
    twice,    \* the overview before a revocation that is then taken back
    view,     \* the results of the queries of a financial overview under way
    config,   \* app.config: the settings of the application
    tokens    \* the users who hold a token of login that has not expired

vars == <<db, session, pc, last, toggled, twice, view, config, tokens>>

-----------------------------------------------------------------------------
(* Bounds of the model.                                                    *)

MaxEntries == 2
MaxHistory == 3
MaxStocktakings == 2

Workers == {"w1", "w2"}

-----------------------------------------------------------------------------
(* JSON values of a request body, tagged with their Python type.           *)

JBool(b) == [t |-> "bool", b |-> b, i |-> 0, s |-> ""]
JInt(n) == [t |-> "int", b |-> FALSE, i |-> n, s |-> ""]
JStr(x) == [t |-> "str", b |-> FALSE, i |-> 0, s |-> x]

\* isinstance(value, type): bool is a subclass of int in Python.
isinstance(value, type) ==
    \/ value.t = type
    \/ type = "int" /\ value.t = "bool"

\* A request body: null (no JSON) or a dictionary.
NullBody == [isnull |-> TRUE, d |-> <<>>]
Body(d) == [isnull |-> FALSE, d |-> d]
EmptyDict == <<>>


Abs(x) == IF x < 0 THEN -x ELSE x

RECURSIVE SumSeq(_)
SumSeq(values) ==
    IF values = <<>> THEN 0 ELSE Head(values) + SumSeq(Tail(values))

\* The value an int-typed field holds (True and False are 1 and 0).
IntOf(value) == IF value.t = "bool" THEN (IF value.b THEN 1 ELSE 0) ELSE value.i

\* Python truthiness of a dictionary argument: None and {} are both false.
Truthy(dict) == DOMAIN dict # {}

\* check_fields_and_types with the test for missing fields made first.
check_fields_and_types_missing_first(data, required, optional) ==
    LET allowed == IF Truthy(required) /\ Truthy(optional)
                       THEN required @@ optional
                   ELSE IF Truthy(required) THEN required
                   ELSE optional
    IN  IF Truthy(required) /\ (\E item \in DOMAIN required : item \notin DOMAIN data)
            THEN "DataIsMissing"
        ELSE IF ~(\A x \in DOMAIN data : x \in DOMAIN allowed)
            THEN "UnknownField"
        ELSE IF \E key \in DOMAIN data : ~isinstance(data[key], allowed[key])
            THEN "WrongType"
        ELSE "ok"

\* check_fields_and_types without the test for unknown fields.
check_fields_and_types_without_unknown(data, required, optional) ==
    LET allowed == IF Truthy(required) /\ Truthy(optional)
                       THEN required @@ optional
                   ELSE IF Truthy(required) THEN required
                   ELSE optional
    IN  IF Truthy(required) /\ (\E item \in DOMAIN required : item \notin DOMAIN data)
            THEN "DataIsMissing"
        ELSE IF \E key \in DOMAIN data \cap DOMAIN allowed :
                    ~isinstance(data[key], allowed[key])
            THEN "WrongType"
        ELSE "ok"

check_fields_and_types(data, required, optional) ==
    LET allowed == IF Truthy(required) /\ Truthy(optional)
                       THEN required @@ optional
                   ELSE IF Truthy(required) THEN required
                   ELSE optional
    IN  IF ~(\A x \in DOMAIN data : x \in DOMAIN allowed)
            THEN "UnknownField"
        ELSE IF Truthy(required) /\ (\E item \in DOMAIN required : item \notin DOMAIN data)
            THEN "DataIsMissing"
        ELSE IF \E key \in DOMAIN data : ~isinstance(data[key], allowed[key])
            THEN "WrongType"
        ELSE "ok"

\* hasattr(row, item) for a Turnover row: the columns the routes read.
TurnoverAttrs ==
    {"id", "timestamp", "amount", "comment", "revoked", "admin_id", "revokehistory"}

check_forbidden(data, allowed_fields, attrs) ==
    IF \E item \in DOMAIN data : item \notin DOMAIN allowed_fields /\ item \in attrs
        THEN "ForbiddenField"
        ELSE "ok"

json_body(body) == IF body.isnull THEN "InvalidJSON" ELSE "ok"

-----------------------------------------------------------------------------
(* Users and the credential of a request.                                  *)

\* Users 1 and 2 are administrators and user 3 is a customer. User 4 was
\* verified with a rank that is not active, and user 5 has registered and is
\* not verified: a user without a rank is not active either.
UserIds == {1, 2, 3, 4, 5}

InitUsers ==
    [u \in UserIds |->
        [is_admin |-> u \in {1, 2}, is_verified |-> u # 5, active |-> u \in {1, 2, 3},
         password |-> IF u \in {1, 2, 3} THEN "1234" ELSE ""]]

NoToken == [kind |-> "missing", uid |-> 0]
MalformedToken == [kind |-> "malformed", uid |-> 0]
ExpiredToken == [kind |-> "expired", uid |-> 1]
TokenWithoutUser == [kind |-> "nouser", uid |-> 0]
TokenOf(u) == [kind |-> "valid", uid |-> u]

\* adminRequired without the assertion that the user is an administrator.
adminRequired_without_assertion(token) ==
    IF token.kind = "missing" THEN [status |-> "UnauthorizedAccess", admin |-> 0]
    ELSE IF token.kind \in {"malformed", "nouser"}
        THEN [status |-> "TokenIsInvalid", admin |-> 0]
    ELSE IF token.kind = "expired" THEN [status |-> "TokenHasExpired", admin |-> 0]
    ELSE [status |-> "ok", admin |-> token.uid]

\* adminRequired with the administrator flag the user had when the
\* database was set up, in place of the flag of the record read now.
adminRequired_of_the_first_record(token) ==
    IF token.kind = "missing" THEN [status |-> "UnauthorizedAccess", admin |-> 0]
    ELSE IF token.kind = "malformed" THEN [status |-> "TokenIsInvalid", admin |-> 0]
    ELSE IF token.kind = "expired" THEN [status |-> "TokenHasExpired", admin |-> 0]
    ELSE IF token.kind = "nouser" THEN [status |-> "TokenIsInvalid", admin |-> 0]
    ELSE IF token.uid \notin DOMAIN db.users
        THEN [status |-> "AttributeError", admin |-> 0]
    ELSE IF ~InitUsers[token.uid].is_admin
        THEN [status |-> "UnauthorizedAccess", admin |-> 0]
    ELSE [status |-> "ok", admin |-> token.uid]

\* The gate of every administrator route: the error it raises, or "ok" and
\* the administrator it passes to the route.
adminRequired(token) ==
    IF token.kind = "missing" THEN [status |-> "UnauthorizedAccess", admin |-> 0]
    ELSE IF token.kind = "malformed" THEN [status |-> "TokenIsInvalid", admin |-> 0]
    ELSE IF token.kind = "expired" THEN [status |-> "TokenHasExpired", admin |-> 0]
    ELSE IF token.kind = "nouser" THEN [status |-> "TokenIsInvalid", admin |-> 0]
    ELSE IF token.uid \notin DOMAIN db.users
        THEN [status |-> "AttributeError", admin |-> 0]
    ELSE IF ~db.users[token.uid].is_admin
        THEN [status |-> "UnauthorizedAccess", admin |-> 0]
    ELSE [status |-> "ok", admin |-> token.uid]

\* adminOptional with the test of the administrator flag of adminRequired:
\* a request without a token or of a user who is no administrator is refused.
adminOptional_refusing(token) == adminRequired(token)

\* The gate of the routes that answer everybody: the error it raises, or
\* "ok" and the administrator it passes to the route, 0 standing for None.
adminOptional(token) ==
    IF token.kind = "missing" THEN [status |-> "ok", admin |-> 0]
    ELSE IF token.kind = "malformed" THEN [status |-> "TokenIsInvalid", admin |-> 0]
    ELSE IF token.kind = "expired" THEN [status |-> "TokenHasExpired", admin |-> 0]
    ELSE IF token.kind = "nouser" THEN [status |-> "TokenIsInvalid", admin |-> 0]
    ELSE IF token.uid \notin DOMAIN db.users
        THEN [status |-> "AttributeError", admin |-> 0]
    ELSE IF ~db.users[token.uid].is_admin THEN [status |-> "ok", admin |-> 0]
    ELSE [status |-> "ok", admin |-> token.uid]

-----------------------------------------------------------------------------
(* The financial overview.                                                 *)

\* Model.query.all(), the revoked rows included.
AllRows(rows) == rows

\* Model.query.filter(Model.revoked.is_(False)).all()
NotRevoked(rows) == SelectSeq(rows, LAMBDA row : row.revoked = FALSE)

\* sum(map(abs, filter(lambda x: x >= 0, values)))
SumNonNegative(values) ==
    SumSeq([i \in DOMAIN SelectSeq(values, LAMBDA x : x >= 0) |->
                Abs(SelectSeq(values, LAMBDA x : x >= 0)[i])])

\* sum(filter(lambda x: x < 0, values)), the absolute value not taken.
SumNegativeSigned(values) == SumSeq(SelectSeq(values, LAMBDA x : x < 0))

\* sum(map(abs, filter(lambda x: x < 0, values)))
SumNegative(values) ==
    SumSeq([i \in DOMAIN SelectSeq(values, LAMBDA x : x < 0) |->
                Abs(SelectSeq(values, LAMBDA x : x < 0)[i])])

Prices(rows) == [i \in DOMAIN rows |-> rows[i].price]
AmountsOf(rows) == [i \in DOMAIN rows |-> rows[i].amount]
TotalPrices(rows) == [i \in DOMAIN rows |-> rows[i].total_price]

Item(name, amount) == [name |-> name, amount |-> amount]

\* The sum of the incomes, the payoffs left out.
sum_incomes_without_payoffs(pos_pur, pos_dep, pos_turn, neg_rep, neg_ref, neg_pay, pos_stock) ==
    pos_pur + pos_dep + pos_turn + neg_rep + neg_ref + pos_stock

sum_incomes(pos_pur, pos_dep, pos_turn, neg_rep, neg_ref, neg_pay, pos_stock) ==
    pos_pur + pos_dep + pos_turn + neg_rep + neg_ref + neg_pay + pos_stock

sum_expenses(neg_pur, neg_dep, neg_turn, pos_rep, pos_ref, pos_pay, neg_stock) ==
    neg_pur + neg_dep + neg_turn + pos_rep + pos_ref + pos_pay + neg_stock

\* The overview computed from the results of the six queries and the
\* stocktaking balance.
financial_overview(purchases, deposits, turnovers, payoffs, refunds, replcolls, pos_stock, neg_stock) ==
    LET pos_pur == SumNonNegative(Prices(purchases))
        pos_dep == SumNonNegative(AmountsOf(deposits))
        pos_turn == SumNonNegative(AmountsOf(turnovers))
        neg_rep == SumNegative(Prices(replcolls))
        neg_ref == SumNegative(TotalPrices(refunds))
        neg_pay == SumNegative(AmountsOf(payoffs))
        incomes == sum_incomes(pos_pur, pos_dep, pos_turn, neg_rep, neg_ref,
                               neg_pay, pos_stock)
        neg_pur == SumNegative(Prices(purchases))
        neg_dep == SumNegative(AmountsOf(deposits))
        neg_turn == SumNegative(AmountsOf(turnovers))
        pos_rep == SumNonNegative(Prices(replcolls))
        pos_ref == SumNonNegative(TotalPrices(refunds))
        pos_pay == SumNonNegative(AmountsOf(payoffs))
        expenses == sum_expenses(neg_pur, neg_dep, neg_turn, pos_rep, pos_ref,
                                 pos_pay, neg_stock)
    IN  [total_balance |-> incomes - expenses,
         incomes |->
            [amount |-> incomes,
             items |-> <<Item("Purchases", pos_pur), Item("Deposits", pos_dep),
                         Item("Turnovers", pos_turn),
                         Item("Replenishments", neg_rep),
                         Item("Refunds", neg_ref), Item("Payoffs", neg_pay),
                         Item("Stocktakings", pos_stock)>>],
         expenses |->
            [amount |-> expenses,
             items |-> <<Item("Purchases", neg_pur), Item("Deposits", neg_dep),
                         Item("Turnovers", neg_turn),
                         Item("Replenishments", pos_rep),
                         Item("Refunds", pos_ref), Item("Payoffs", pos_pay),
                         Item("Stocktakings", neg_stock)>>]]

\* The price of product p in effect when stocktaking number at was taken.
PriceAt(d, p, at) ==
    LET known == SelectSeq(d.products[p].pricehistory,
                           LAMBDA e : e.timestamp < at)
    IN  IF known = <<>> THEN 0 ELSE known[Len(known)].price

\* Amounts of product p among the rows, taken between two stocktakings.
RECURSIVE AmountBetween(_, _, _, _)
AmountBetween(rows, p, start, end) ==
    IF rows = <<>> THEN 0
    ELSE (IF Head(rows).product_id = p /\ Head(rows).timestamp >= start
             /\ Head(rows).timestamp < end
          THEN Head(rows).amount ELSE 0)
         + AmountBetween(Tail(rows), p, start, end)

\* The line items of the collections, each with its collection's timestamp.
RECURSIVE Replenishments(_)
Replenishments(replcolls) ==
    IF replcolls = <<>> THEN <<>>
    ELSE [i \in DOMAIN Head(replcolls).replenishments |->
             [product_id |-> Head(replcolls).replenishments[i].product_id,
              amount |-> Head(replcolls).replenishments[i].amount,
              timestamp |-> Head(replcolls).timestamp]]
         \o Replenishments(Tail(replcolls))

\* counted - expected of product p between stocktakings start and end.
StockDelta(d, p, start, end) ==
    LET first == d.stocktakingcollections[start].items
        final == d.stocktakingcollections[end].items
        expected ==
            first[p]
            - AmountBetween(NotRevoked(d.purchases), p, start, end)
            + AmountBetween(Replenishments(NotRevoked(d.replenishmentcollections)),
                            p, start, end)
        actual == IF p \in DOMAIN final THEN final[p] ELSE 0
    IN  actual - expected

\* The sum of the differences valued at the prices in effect at start.
RECURSIVE SumStock_at_the_price_of_start(_, _, _, _, _)
SumStock_at_the_price_of_start(d, P, start, end, profit) ==
    IF P = {} THEN 0
    ELSE LET p == CHOOSE x \in P : TRUE
         IN  (IF (StockDelta(d, p, start, end) >= 0) = profit
                  THEN Abs(StockDelta(d, p, start, end)) * PriceAt(d, p, start)
                  ELSE 0)
             + SumStock_at_the_price_of_start(d, P \ {p}, start, end, profit)

RECURSIVE SumStock(_, _, _, _, _)
SumStock(d, P, start, end, profit) ==
    IF P = {} THEN 0
    ELSE LET p == CHOOSE x \in P : TRUE
             delta == StockDelta(d, p, start, end)
             value == Abs(delta) * PriceAt(d, p, end)
         IN  (IF (delta >= 0) = profit THEN value ELSE 0)
             + SumStock(d, P \ {p}, start, end, profit)

get_balance_between_stocktakings(d, start, end) ==
    LET P == DOMAIN d.stocktakingcollections[start].items
    IN  [profit |-> SumStock(d, P, start, end, TRUE),
         loss |-> SumStock(d, P, start, end, FALSE)]

\* The value of what the stocktaking counted, at the prices of database d.
RECURSIVE CountedValue(_, _, _)
CountedValue(d, items, P) ==
    IF P = {} THEN 0
    ELSE LET p == CHOOSE x \in P : TRUE
         IN  items[p] * d.products[p].pricehistory[Len(d.products[p].pricehistory)].price
             + CountedValue(d, items, P \ {p})

\* A balance that takes the stock counted by the only stocktaking as profit.
stock_balance_of_the_only_stocktaking(d) ==
    IF Len(d.stocktakingcollections) = 0 THEN [profit |-> 0, loss |-> 0]
    ELSE IF Len(d.stocktakingcollections) = 1
        THEN [profit |-> CountedValue(d, d.stocktakingcollections[1].items,
                                      DOMAIN d.stocktakingcollections[1].items),
              loss |-> 0]
    ELSE get_balance_between_stocktakings(d, 1, Len(d.stocktakingcollections))

\* The balance between the first and the last stocktaking of database d
\* (0 and 0 when there is none, or only one).
stock_balance(d) ==
    LET n == Len(d.stocktakingcollections)
        stock_first == IF n = 0 THEN 0 ELSE 1
        stock_last == IF n = 0 THEN 0 ELSE n
    IN  IF stock_first = 0 \/ stock_last = 0 \/ stock_first = stock_last
            THEN [profit |-> 0, loss |-> 0]
            ELSE get_balance_between_stocktakings(d, stock_first, stock_last)

\* GET /financial_overview on database d, all queries seeing the same d.
get_financial_overview(d) ==
    financial_overview(NotRevoked(d.purchases), NotRevoked(d.deposits),
                       NotRevoked(d.turnovers), NotRevoked(d.payoffs),
                       NotRevoked(d.refunds),
                       NotRevoked(d.replenishmentcollections),
                       stock_balance(d).profit, stock_balance(d).loss)

\* The credit of user u: the deposits of the user minus the prices of the
\* purchases of the user, over the entries that are not revoked.
OfUser(rows, u) == SelectSeq(rows, LAMBDA row : row.user_id = u)

credit(d, u) ==
    SumSeq(AmountsOf(OfUser(NotRevoked(d.deposits), u)))
    - SumSeq(Prices(OfUser(NotRevoked(d.purchases), u)))

-----------------------------------------------------------------------------
(* The database session of a worker: writes are pending until commit.      *)

AddOp(table, row) ==
    [op |-> "add", table |-> table, id |-> 0, revoked |-> FALSE, admin_id |-> 0,
     row |-> row]
ToggleOp(table, id, revoked, admin_id) ==
    [op |-> "toggle", table |-> table, id |-> id, revoked |-> revoked,
     admin_id |-> admin_id, row |-> <<>>]

ActivateOp(product_id) ==
    [op |-> "activate", table |-> "products", id |-> product_id,
     revoked |-> FALSE, admin_id |-> 0, row |-> <<>>]

\* The revocation of a ledger row: the flag is set and one entry is appended
\* to the row's revoke history.
toggle_revoke(row, revoked, admin_id) ==
    [row EXCEPT !.revoked = revoked,
                !.revokehistory =
                    Append(@, [admin_id |-> admin_id, revoked |-> revoked])]

\* The time of a write. The model measures time in stocktakings taken: a row
\* is as old as the number of stocktaking collections that existed before it.
Now(d) == Len(d.stocktakingcollections)

\* One pending write reaching the database.
ApplyOp(d, o) ==
    IF o.op = "add"
        THEN [d EXCEPT ![o.table] =
                 Append(@, [o.row EXCEPT !.timestamp = Now(d)])]
    ELSE IF o.op = "activate"
        THEN [d EXCEPT !.products[o.id].active = TRUE]
    ELSE [d EXCEPT ![o.table][o.id] = toggle_revoke(@, o.revoked, o.admin_id)]

RECURSIVE Flush(_, _)
Flush(d, ops) ==
    IF ops = <<>> THEN d ELSE Flush(ApplyOp(d, Head(ops)), Tail(ops))

\* db.session.rollback(): every pending write of the session is dropped.
keep_pending(ops) == ops

rollback(ops) == <<>>

\* Where a worker stands: idle, or before the commit of a revoke request.
Idle == [at |-> "idle", table |-> "none", id |-> 0, revoked |-> FALSE, admin |-> 0]
Revoking(table, id, revoked, admin) ==
    [at |-> "commit", table |-> table, id |-> id, revoked |-> revoked,
     admin |-> admin]
\* A request that creates an entry revokes none.
NoRevoke == Idle

\* The error handler of the application: roll back, then answer with the
\* error (an exception that is no ShopdbException is raised again).
handle_error(w, pending, route, status) ==
    /\ session' = [session EXCEPT ![w] = rollback(pending)]
    /\ pc' = [pc EXCEPT ![w] = Idle]
    /\ last' = [route |-> route, status |-> status]
    /\ UNCHANGED <<db, toggled, twice, view, config, tokens>>

\* The overview of a database committed while the queries of a financial
\* overview are under way is remembered.
Seen(v, d) ==
    IF v.step \in 1 .. 7 THEN [v EXCEPT !.seen = @ \cup {get_financial_overview(d)}]
    ELSE v

\* The revoke requests answered with success so far, per row.
ToggledAfter(request, pending) ==
    LET grown == [t \in DOMAIN toggled |->
                    toggled[t] \o
                    [i \in 1 .. Len(SelectSeq(pending,
                                   LAMBDA o : o.op = "add" /\ o.table = t)) |-> 0]]
    IN  IF request.at = "idle" THEN grown
        ELSE [grown EXCEPT ![request.table][request.id] = @ + 1]

NotTwice ==
    [stage |-> 0, table |-> "none", id |-> 0, hlen |-> 0, before |-> <<>>]

\* A successful request to revoke an active entry opens the record; the
\* next successful request, if it takes that revocation back, closes it.
TwiceAfter(request, overview) ==
    IF request.at = "idle" THEN NotTwice
    ELSE LET row == db[request.table][request.id]
         IN  IF twice.stage = 1 /\ twice.table = request.table
                    /\ twice.id = request.id /\ row.revoked /\ ~request.revoked
                 THEN [twice EXCEPT !.stage = 2]
             ELSE IF ~row.revoked /\ request.revoked
                 THEN [stage |-> 1, table |-> request.table, id |-> request.id,
                       hlen |-> Len(row.revokehistory), before |-> overview]
             ELSE NotTwice

\* db.session.commit() followed by the success response of the route.
commit(w, pending, route, status, request) ==
    /\ db' = Flush(db, pending)
    /\ session' = [session EXCEPT ![w] = <<>>]
    /\ pc' = [pc EXCEPT ![w] = Idle]
    /\ last' = [route |-> route, status |-> status]
    /\ toggled' = ToggledAfter(request, pending)
    /\ twice' = TwiceAfter(request, get_financial_overview(db))
    /\ view' = Seen(view, Flush(db, pending))
    /\ UNCHANGED <<config, tokens>>

-----------------------------------------------------------------------------
(* Turnovers.                                                              *)

NewTurnover(data, admin) ==
    [amount |-> IntOf(data["amount"]), comment |-> data["comment"].s,
     admin_id |-> admin, timestamp |-> 0, revoked |-> FALSE,
     revokehistory |-> <<>>]

LedgerTables ==
    {"purchases", "deposits", "turnovers", "payoffs", "refunds",
     "replenishmentcollections"}

\* Number of rows of all ledger tables together.
LedgerSize ==
    Len(db.purchases) + Len(db.deposits) + Len(db.turnovers) + Len(db.payoffs)
    + Len(db.refunds) + Len(db.replenishmentcollections)

\* create_turnover without the test of the amount.
create_turnover_check_without_amount(body) ==
    IF json_body(body) # "ok" THEN json_body(body)
    ELSE check_fields_and_types(body.d,
                                ("amount" :> "int") @@ ("comment" :> "str"),
                                EmptyDict)

\* What create_turnover raises before it writes, or "ok".
create_turnover_check(body) ==
    IF json_body(body) # "ok" THEN json_body(body)
    ELSE LET data == body.d
             required == ("amount" :> "int") @@ ("comment" :> "str")
             fields == check_fields_and_types(data, required, EmptyDict)
         IN  IF fields # "ok" THEN fields
             ELSE IF IntOf(data["amount"]) = 0 THEN "InvalidAmount"
             ELSE "ok"

\* POST /turnovers. The commit either succeeds or raises IntegrityError.
create_turnover(w, token, body) ==
    /\ pc[w] = Idle
    /\ LET auth == adminRequired(token)
           check == create_turnover_check(body)
       IN  IF auth.status # "ok"
               THEN handle_error(w, session[w], "create_turnover", auth.status)
           ELSE IF check # "ok"
               THEN handle_error(w, session[w], "create_turnover", check)
           ELSE LET pending ==
                        Append(session[w],
                               AddOp("turnovers", NewTurnover(body.d, auth.admin)))
                IN  \/ handle_error(w, pending, "create_turnover",
                                    "CouldNotCreateEntry")
                    \/ /\ LedgerSize < MaxEntries
                       /\ commit(w, pending, "create_turnover", "Created turnover.",
                                 NoRevoke)

\* update_turnover without the comparison of the requested state with the
\* state of the turnover.
update_turnover_check_without_comparison(id, body) ==
    IF id \notin DOMAIN db.turnovers THEN "EntryNotFound"
    ELSE IF json_body(body) # "ok" THEN json_body(body)
    ELSE LET data == body.d
             updateable == ("revoked" :> "bool")
         IN  IF ~Truthy(data) THEN "NothingHasChanged"
             ELSE IF check_forbidden(data, updateable, TurnoverAttrs) # "ok"
                 THEN check_forbidden(data, updateable, TurnoverAttrs)
             ELSE IF check_fields_and_types(data, EmptyDict, updateable) # "ok"
                 THEN check_fields_and_types(data, EmptyDict, updateable)
             ELSE "ok"

\* update_turnover that refuses every change of a revoked turnover.
update_turnover_check_revoked_is_final(id, body) ==
    IF id \notin DOMAIN db.turnovers THEN "EntryNotFound"
    ELSE IF db.turnovers[id].revoked THEN "NothingHasChanged"
    ELSE update_turnover_check_without_comparison(id, body)

\* What update_turnover raises before it toggles, or "ok".
update_turnover_check(id, body) ==
    IF id \notin DOMAIN db.turnovers THEN "EntryNotFound"
    ELSE IF json_body(body) # "ok" THEN json_body(body)
    ELSE LET turnover == db.turnovers[id]
             data == body.d
             updateable == ("revoked" :> "bool")
         IN  IF ~Truthy(data) THEN "NothingHasChanged"
             ELSE IF check_forbidden(data, updateable, TurnoverAttrs) # "ok"
                 THEN check_forbidden(data, updateable, TurnoverAttrs)
             ELSE IF check_fields_and_types(data, EmptyDict, updateable) # "ok"
                 THEN check_fields_and_types(data, EmptyDict, updateable)
             ELSE IF "revoked" \in DOMAIN data
                     /\ turnover.revoked = data["revoked"].b
                 THEN "NothingHasChanged"
             ELSE "ok"

\* Number of rows of the revoke-history tables, the pending ones included.
RECURSIVE HistoryRows(_)
HistoryRows(rows) ==
    IF rows = <<>> THEN 0
    ELSE Len(Head(rows).revokehistory) + HistoryRows(Tail(rows))

RECURSIVE PendingToggles(_)
PendingToggles(ops) ==
    IF ops = <<>> THEN 0
    ELSE (IF Head(ops).op = "toggle" THEN 1 ELSE 0) + PendingToggles(Tail(ops))

RECURSIVE PendingOfAll(_)
PendingOfAll(W) ==
    IF W = {} THEN 0
    ELSE LET w == CHOOSE x \in W : TRUE
         IN  PendingToggles(session[w]) + PendingOfAll(W \ {w})

HistorySize ==
    HistoryRows(db.purchases) + HistoryRows(db.deposits) + HistoryRows(db.turnovers)
    + HistoryRows(db.payoffs) + HistoryRows(db.refunds)
    + HistoryRows(db.replenishmentcollections) + PendingOfAll(Workers)

\* A toggle that revokes whatever the request asks for.
update_turnover_toggle_revoking(id, data, admin) ==
    ToggleOp("turnovers", id, TRUE, admin)

\* A toggle recorded for the creator of the turnover.
update_turnover_toggle_by_creator(id, data, admin) ==
    ToggleOp("turnovers", id, data["revoked"].b, db.turnovers[id].admin_id)

\* turnover.toggle_revoke(revoked=data['revoked'], admin_id=admin.id)
update_turnover_toggle(id, data, admin) ==
    ToggleOp("turnovers", id, data["revoked"].b, admin)

\* PUT /turnovers/<id>, up to the commit: the turnover is read, the request
\* is checked and the toggle is made in the session.
update_turnover(w, token, id, body) ==
    /\ pc[w] = Idle
    /\ LET auth == adminRequired(token)
           check == update_turnover_check(id, body)
       IN  IF auth.status # "ok"
               THEN handle_error(w, session[w], "update_turnover", auth.status)
           ELSE IF check # "ok"
               THEN handle_error(w, session[w], "update_turnover", check)
           ELSE /\ HistorySize < MaxHistory
                /\ session' = [session EXCEPT ![w] =
                       Append(@, update_turnover_toggle(id, body.d, auth.admin))]
                /\ pc' = [pc EXCEPT ![w] =
                       Revoking("turnovers", id, body.d["revoked"].b, auth.admin)]
                /\ UNCHANGED <<db, last, toggled, twice, view, config, tokens>>

\* The response of update_turnover without db.session.commit(): the toggle
\* is lost when the session is closed.
update_turnover_without_commit(w) ==
    /\ pc[w].at = "commit"
    /\ session' = [session EXCEPT ![w] = <<>>]
    /\ pc' = [pc EXCEPT ![w] = Idle]
    /\ last' = [route |-> "update_turnover", status |-> "Updated turnover."]
    /\ toggled' = ToggledAfter(pc[w], session[w])
    /\ UNCHANGED <<db, twice, view, config, tokens>>

\* PUT /turnovers/<id>, the commit and the response. The commit either
\* succeeds or raises IntegrityError.
update_turnover_commit(w) ==
    /\ pc[w].at = "commit"
    /\ \/ handle_error(w, session[w], "update_turnover", "CouldNotUpdateEntry")
       \/ commit(w, session[w], "update_turnover", "Updated turnover.", pc[w])

-----------------------------------------------------------------------------
(* Deposits.                                                               *)

NewDeposit(data, admin) ==
    [user_id |-> IntOf(data["user_id"]), amount |-> IntOf(data["amount"]),
     comment |-> data["comment"].s, admin_id |-> admin, timestamp |-> 0,
     revoked |-> FALSE, revokehistory |-> <<>>]

\* insert_deposit with the test of the amount before the tests of the user.
insert_deposit_check_amount_first(data) ==
    LET required == ("user_id" :> "int") @@ ("amount" :> "int")
                    @@ ("comment" :> "str")
        fields == check_fields_and_types(data, required, EmptyDict)
    IN  IF fields # "ok" THEN fields
        ELSE IF IntOf(data["amount"]) = 0 THEN "InvalidAmount"
        ELSE IF IntOf(data["user_id"]) \notin DOMAIN db.users THEN "EntryNotFound"
        ELSE IF ~db.users[IntOf(data["user_id"])].is_verified
            THEN "UserIsNotVerified"
        ELSE IF ~db.users[IntOf(data["user_id"])].active THEN "UserIsInactive"
        ELSE "ok"

\* What insert_deposit raises before it adds the deposit, or "ok".
insert_deposit_check(data) ==
    LET required == ("user_id" :> "int") @@ ("amount" :> "int")
                    @@ ("comment" :> "str")
        fields == check_fields_and_types(data, required, EmptyDict)
    IN  IF fields # "ok" THEN fields
        ELSE IF IntOf(data["user_id"]) \notin DOMAIN db.users THEN "EntryNotFound"
        ELSE IF ~db.users[IntOf(data["user_id"])].is_verified
            THEN "UserIsNotVerified"
        ELSE IF ~db.users[IntOf(data["user_id"])].active THEN "UserIsInactive"
        ELSE IF IntOf(data["amount"]) = 0 THEN "InvalidAmount"
        ELSE "ok"

\* POST /deposits: insert_deposit on the body, then the commit.
create_deposit(w, token, body) ==
    /\ pc[w] = Idle
    /\ LET auth == adminRequired(token)
           check == IF json_body(body) # "ok" THEN json_body(body)
                    ELSE insert_deposit_check(body.d)
       IN  IF auth.status # "ok"
               THEN handle_error(w, session[w], "create_deposit", auth.status)
           ELSE IF check # "ok"
               THEN handle_error(w, session[w], "create_deposit", check)
           ELSE LET pending ==
                        Append(session[w],
                               AddOp("deposits", NewDeposit(body.d, auth.admin)))
                IN  \/ handle_error(w, pending, "create_deposit",
                                    "CouldNotCreateEntry")
                    \/ /\ LedgerSize < MaxEntries
                       /\ commit(w, pending, "create_deposit", "Created deposit.",
                                 NoRevoke)

-----------------------------------------------------------------------------
(* The other ledger entries: purchases, payoffs, refunds and replenishment *)
(* collections, and their revocation.                                      *)

CurrentPrice(p) ==
    db.products[p].pricehistory[Len(db.products[p].pricehistory)].price

NewPurchase(user_id, product_id, amount, admin) ==
    [user_id |-> user_id, product_id |-> product_id, amount |-> amount,
     price |-> CurrentPrice(product_id), comment |-> "", admin_id |-> admin,
     timestamp |-> 0, revoked |-> FALSE, revokehistory |-> <<>>]

create_purchase_check(user_id, product_id, amount) ==
    IF user_id \notin DOMAIN db.users THEN "EntryNotFound"
    ELSE IF ~db.users[user_id].is_verified THEN "UserIsNotVerified"
    ELSE IF ~db.users[user_id].active THEN "UserIsInactive"
    ELSE IF product_id \notin DOMAIN db.products THEN "EntryNotFound"
    ELSE IF amount = 0 THEN "InvalidAmount"
    ELSE "ok"

create_purchase(w, token, user_id, product_id, amount) ==
    /\ pc[w] = Idle
    /\ LET auth == adminRequired(token)
           check == create_purchase_check(user_id, product_id, amount)
       IN  IF auth.status # "ok"
               THEN handle_error(w, session[w], "create_purchase", auth.status)
           ELSE IF check # "ok"
               THEN handle_error(w, session[w], "create_purchase", check)
           ELSE LET pending ==
                        Append(session[w],
                               AddOp("purchases",
                                     NewPurchase(user_id, product_id, amount,
                                                 auth.admin)))
                IN  \/ handle_error(w, pending, "create_purchase",
                                    "CouldNotCreateEntry")
                    \/ /\ LedgerSize < MaxEntries
                       /\ commit(w, pending, "create_purchase",
                                 "Created purchase.", NoRevoke)

NewPayoff(amount, comment, admin) ==
    [amount |-> amount, comment |-> comment, admin_id |-> admin,
     timestamp |-> 0, revoked |-> FALSE, revokehistory |-> <<>>]

NewRefund(total_price, comment, admin) ==
    [total_price |-> total_price, comment |-> comment, admin_id |-> admin,
     timestamp |-> 0, revoked |-> FALSE, revokehistory |-> <<>>]

\* The tables of the entries made of a signed amount and a comment.
EntryTables == {"payoffs", "refunds"}

\* Creation of a payoff or a refund of the given signed amount.
createEntry(w, token, table, amount, comment) ==
    /\ pc[w] = Idle
    /\ table \in EntryTables
    /\ LET auth == adminRequired(token)
       IN  IF auth.status # "ok"
               THEN handle_error(w, session[w], "createEntry", auth.status)
           ELSE IF amount = 0
               THEN handle_error(w, session[w], "createEntry", "InvalidAmount")
           ELSE LET row == IF table = "payoffs"
                               THEN NewPayoff(amount, comment, auth.admin)
                               ELSE NewRefund(amount, comment, auth.admin)
                    pending == Append(session[w], AddOp(table, row))
                IN  \/ handle_error(w, pending, "createEntry",
                                    "CouldNotCreateEntry")
                    \/ /\ LedgerSize < MaxEntries
                       /\ commit(w, pending, "createEntry", "Created entry.",
                                 NoRevoke)

TotalPricesOf(replenishments) ==
    [i \in DOMAIN replenishments |-> replenishments[i].total_price]

\* A collection whose price is the total price of its first line.
NewReplenishmentCollection_of_first_line(replenishments, comment, admin) ==
    [price |-> replenishments[1].total_price, comment |-> comment,
     admin_id |-> admin, timestamp |-> 0, revoked |-> FALSE,
     revokehistory |-> <<>>, replenishments |-> replenishments]

NewReplenishmentCollection(replenishments, comment, admin) ==
    [price |-> SumSeq(TotalPricesOf(replenishments)), comment |-> comment,
     admin_id |-> admin, timestamp |-> 0, revoked |-> FALSE,
     revokehistory |-> <<>>, replenishments |-> replenishments]

\* Only the first line item is handled.
handle_replenishments_of_first_line(replenishments, pending) ==
    IF replenishments = <<>> THEN [status |-> "ok", pending |-> pending]
    ELSE IF Head(replenishments).product_id \notin DOMAIN db.products
        THEN [status |-> "EntryNotFound", pending |-> pending]
    ELSE IF Head(replenishments).amount <= 0
        THEN [status |-> "InvalidAmount", pending |-> pending]
    ELSE [status |-> "ok",
          pending |-> IF db.products[Head(replenishments).product_id].active
                          THEN pending
                          ELSE Append(pending,
                                      ActivateOp(Head(replenishments).product_id))]

\* The line items are checked and no product is made active.
RECURSIVE handle_replenishments_without_activation(_, _)
handle_replenishments_without_activation(replenishments, pending) ==
    IF replenishments = <<>> THEN [status |-> "ok", pending |-> pending]
    ELSE IF Head(replenishments).product_id \notin DOMAIN db.products
        THEN [status |-> "EntryNotFound", pending |-> pending]
    ELSE IF Head(replenishments).amount <= 0
        THEN [status |-> "InvalidAmount", pending |-> pending]
    ELSE handle_replenishments_without_activation(Tail(replenishments), pending)

\* The line items are handled in order: an unknown product or an amount that
\* is not positive ends the request, a known product is made active again.
\* The status, and the writes pending when the loop ends.
RECURSIVE handle_replenishments(_, _)
handle_replenishments(replenishments, pending) ==
    IF replenishments = <<>> THEN [status |-> "ok", pending |-> pending]
    ELSE LET repl == Head(replenishments)
         IN  IF repl.product_id \notin DOMAIN db.products
                 THEN [status |-> "EntryNotFound", pending |-> pending]
             ELSE IF repl.amount <= 0
                 THEN [status |-> "InvalidAmount", pending |-> pending]
             ELSE handle_replenishments(
                      Tail(replenishments),
                      IF db.products[repl.product_id].active THEN pending
                      ELSE Append(pending, ActivateOp(repl.product_id)))

create_replenishmentcollection(w, token, replenishments, comment) ==
    /\ pc[w] = Idle
    /\ LET auth == adminRequired(token)
           loop == handle_replenishments(replenishments, session[w])
       IN  IF auth.status # "ok"
               THEN handle_error(w, session[w], "create_replenishmentcollection",
                                 auth.status)
           ELSE IF replenishments = <<>>
               THEN handle_error(w, session[w], "create_replenishmentcollection",
                                 "DataIsMissing")
           ELSE IF loop.status # "ok"
               THEN handle_error(w, loop.pending, "create_replenishmentcollection",
                                 loop.status)
           ELSE IF SumSeq(TotalPricesOf(replenishments)) = 0
               THEN handle_error(w, loop.pending, "create_replenishmentcollection",
                                 "InvalidAmount")
           ELSE LET pending ==
                        Append(loop.pending,
                               AddOp("replenishmentcollections",
                                     NewReplenishmentCollection(
                                         replenishments, comment, auth.admin)))
                IN  \/ handle_error(w, pending, "create_replenishmentcollection",
                                    "CouldNotCreateEntry")
                    \/ /\ LedgerSize < MaxEntries
                       /\ commit(w, pending, "create_replenishmentcollection",
                                 "Created replenishmentcollection.", NoRevoke)

\* A product is taken out of the assortment or put back into it.
update_product(w, token, product_id, active) ==
    /\ pc[w] = Idle
    /\ LET auth == adminRequired(token)
       IN  IF auth.status # "ok"
               THEN handle_error(w, session[w], "update_product", auth.status)
           ELSE IF product_id \notin DOMAIN db.products
               THEN handle_error(w, session[w], "update_product", "EntryNotFound")
           ELSE IF db.products[product_id].active = active
               THEN handle_error(w, session[w], "update_product",
                                 "NothingHasChanged")
           ELSE /\ db' = [db EXCEPT !.products[product_id].active = active]
                /\ session' = [session EXCEPT ![w] = <<>>]
                /\ pc' = [pc EXCEPT ![w] = Idle]
                /\ last' = [route |-> "update_product",
                            status |-> "Updated product."]
                /\ UNCHANGED <<toggled, twice, view, config, tokens>>

\* The product with the price put in the place of its latest price.
WithPrice_overwriting(product, price) ==
    [product EXCEPT !.pricehistory[Len(product.pricehistory)].price = price]

\* The product with the price added to its price history.
WithPrice(product, price) ==
    [product EXCEPT !.pricehistory = Append(@, [price |-> price, timestamp |-> Now(db)])]

\* A change of the price that also sets the price of the purchases of the
\* product that are stored.
update_product_price_of_purchases(w, token, product_id, price) ==
    /\ pc[w] = Idle
    /\ adminRequired(token).status = "ok"
    /\ product_id \in DOMAIN db.products
    /\ CurrentPrice(product_id) # price
    /\ Len(db.products[product_id].pricehistory) < MaxHistory
    /\ db' = [db EXCEPT
                 !.products[product_id] = WithPrice(@, price),
                 !.purchases = [i \in DOMAIN @ |->
                                   IF @[i].product_id = product_id
                                       THEN [@[i] EXCEPT !.price = price]
                                       ELSE @[i]]]
    /\ session' = [session EXCEPT ![w] = <<>>]
    /\ pc' = [pc EXCEPT ![w] = Idle]
    /\ last' = [route |-> "update_product", status |-> "Updated product."]
    /\ UNCHANGED <<toggled, twice, view, config, tokens>>

\* The price of a product is changed: the new price is added to the price
\* history of the product.
update_product_price(w, token, product_id, price) ==
    /\ pc[w] = Idle
    /\ LET auth == adminRequired(token)
       IN  IF auth.status # "ok"
               THEN handle_error(w, session[w], "update_product", auth.status)
           ELSE IF product_id \notin DOMAIN db.products
               THEN handle_error(w, session[w], "update_product", "EntryNotFound")
           ELSE IF CurrentPrice(product_id) = price
               THEN handle_error(w, session[w], "update_product",
                                 "NothingHasChanged")
           ELSE /\ Len(db.products[product_id].pricehistory) < MaxHistory
                /\ db' = [db EXCEPT !.products[product_id] = WithPrice(@, price)]
                /\ session' = [session EXCEPT ![w] = <<>>]
                /\ pc' = [pc EXCEPT ![w] = Idle]
                /\ last' = [route |-> "update_product",
                            status |-> "Updated product."]
                /\ UNCHANGED <<toggled, twice, view, config, tokens>>

\* The list of the products: an administrator gets every product, everybody
\* else the products of the assortment only.
list_products(w, token) ==
    /\ pc[w] = Idle
    /\ LET auth == adminOptional(token)
       IN  IF auth.status # "ok"
               THEN handle_error(w, session[w], "list_products", auth.status)
           ELSE /\ last' = [route |-> "list_products",
                            status |-> IF auth.admin = 0 THEN "active products"
                                       ELSE "all products"]
                /\ UNCHANGED <<db, session, pc, toggled, twice, view, config, tokens>>

\* The tables of the ledger entries other than the turnovers.
RevokeTables ==
    {"purchases", "deposits", "payoffs", "refunds", "replenishmentcollections"}

\* The revocation of a ledger entry other than a turnover, as one unit.
toggleRevoke(w, token, table, id, new_state) ==
    /\ pc[w] = Idle
    /\ table \in RevokeTables
    /\ LET auth == adminRequired(token)
       IN  IF auth.status # "ok"
               THEN handle_error(w, session[w], "toggleRevoke", auth.status)
           ELSE IF id \notin DOMAIN db[table]
               THEN handle_error(w, session[w], "toggleRevoke", "EntryNotFound")
           ELSE IF db[table][id].revoked = new_state
               THEN handle_error(w, session[w], "toggleRevoke",
                                 "NothingHasChanged")
           ELSE LET pending ==
                        Append(session[w],
                               ToggleOp(table, id, new_state, auth.admin))
                IN  \/ handle_error(w, pending, "toggleRevoke",
                                    "CouldNotUpdateEntry")
                    \/ /\ HistorySize < MaxHistory
                       /\ commit(w, pending, "toggleRevoke", "Updated entry.",
                                 Revoking(table, id, new_state, auth.admin))

-----------------------------------------------------------------------------
(* The maintenance mode and the login.                                     *)

\* The endpoints served in maintenance mode, without the login.
exceptions_without_login == {"maintenance"}

\* The endpoints that are served in maintenance mode.
exceptions == {"maintenance", "login"}

\* What before_request_hook raises for a request to the endpoint, or "ok".
before_request_hook(endpoint) ==
    IF config.MAINTENANCE /\ endpoint \notin exceptions THEN "MaintenanceMode"
    ELSE "ok"

\* A request of worker w to the endpoint: the hook, then the handler.
request(w, endpoint, handler) ==
    IF before_request_hook(endpoint) # "ok"
        THEN /\ pc[w] = Idle
             /\ handle_error(w, session[w], endpoint, before_request_hook(endpoint))
        ELSE handler

StateBody(b) == Body("state" :> JBool(b))

\* What set_maintenance raises before it sets the flag, or "ok".
set_maintenance_check(body) ==
    IF json_body(body) # "ok" THEN json_body(body)
    ELSE LET fields == check_fields_and_types(body.d, "state" :> "bool", EmptyDict)
         IN  IF fields # "ok" THEN fields
             ELSE IF config.MAINTENANCE = body.d["state"].b THEN "NothingHasChanged"
             ELSE "ok"

\* POST /maintenance
set_maintenance(w, token, body) ==
    /\ pc[w] = Idle
    /\ LET auth == adminRequired(token)
           check == set_maintenance_check(body)
       IN  IF auth.status # "ok"
               THEN handle_error(w, session[w], "maintenance", auth.status)
           ELSE IF check # "ok"
               THEN handle_error(w, session[w], "maintenance", check)
           ELSE /\ config' = [config EXCEPT !.MAINTENANCE = body.d["state"].b]
                /\ last' = [route |-> "maintenance",
                            status |-> IF body.d["state"].b
                                           THEN "Turned maintenance mode on."
                                           ELSE "Turned maintenance mode off."]
                /\ UNCHANGED <<db, session, pc, toggled, twice, view, tokens>>

LoginBody(id, password) == Body(("id" :> JInt(id)) @@ ("password" :> JStr(password)))

\* What login raises before it makes the token, or "ok".
login_check(body) ==
    IF json_body(body) # "ok" THEN json_body(body)
    ELSE LET data == body.d
             required == ("id" :> "int") @@ ("password" :> "str")
             fields == check_fields_and_types(data, required, EmptyDict)
         IN  IF fields # "ok" THEN fields
             ELSE IF IntOf(data["id"]) \notin DOMAIN db.users THEN "InvalidCredentials"
             ELSE LET user == db.users[IntOf(data["id"])]
                  IN  IF ~user.is_verified THEN "UserIsNotVerified"
                      ELSE IF ~user.active THEN "UserIsInactive"
                      ELSE IF user.password = "" THEN "InvalidCredentials"
                      ELSE IF user.password # data["password"].s
                          THEN "InvalidCredentials"
                      ELSE "ok"

\* POST /login: the user gets a token that is valid for 60 minutes.
login(w, body) ==
    /\ pc[w] = Idle
    /\ IF login_check(body) # "ok"
           THEN handle_error(w, session[w], "login", login_check(body))
           ELSE /\ tokens' = tokens \cup {IntOf(body.d["id"])}
                /\ last' = [route |-> "login", status |-> "token"]
                /\ UNCHANGED <<db, session, pc, toggled, twice, view, config>>

NewStocktakingCollection(items, admin) ==
    [items |-> items, admin_id |-> admin, timestamp |-> 0, revoked |-> FALSE,
     revokehistory |-> <<>>]

\* The products of the assortment.
ActiveProducts == {p \in DOMAIN db.products : db.products[p].active}

\* A stocktaking: the counted amount of every product of the assortment.
create_stocktakingcollection(w, token, items) ==
    /\ pc[w] = Idle
    /\ LET auth == adminRequired(token)
       IN  IF auth.status # "ok"
               THEN handle_error(w, session[w], "create_stocktakingcollection",
                                 auth.status)
           ELSE IF DOMAIN items # ActiveProducts
               THEN handle_error(w, session[w], "create_stocktakingcollection",
                                 "DataIsMissing")
           ELSE LET pending ==
                        Append(session[w],
                               AddOp("stocktakingcollections",
                                     NewStocktakingCollection(items, auth.admin)))
                IN  \/ handle_error(w, pending, "create_stocktakingcollection",
                                    "CouldNotCreateEntry")
                    \/ /\ Len(db.stocktakingcollections) < MaxStocktakings
                       /\ commit(w, pending, "create_stocktakingcollection",
                                 "Created stocktakingcollection.", NoRevoke)

-----------------------------------------------------------------------------

\* No financial overview is under way.
NoView ==
    [step |-> 0, purchases |-> <<>>, deposits |-> <<>>, turnovers |-> <<>>,
     payoffs |-> <<>>, refunds |-> <<>>, replenishmentcollections |-> <<>>,
     stock |-> [profit |-> 0, loss |-> 0], seen |-> {}, result |-> <<>>]

\* The tables in the order get_financial_overview queries them.
Queried ==
    <<"purchases", "deposits", "turnovers", "payoffs", "refunds",
      "replenishmentcollections">>

\* GET /financial_overview, one of its six queries: each reads the rows of
\* its table that are committed when it runs. The first follows the check
\* of the credential.
get_financial_overview_query(w, token) ==
    /\ pc[w] = Idle
    /\ view.step \in {0, 1, 2, 3, 4, 5, 8}
    /\ LET auth == adminRequired(token)
           v == IF view.step = 8 THEN NoView ELSE view
           table == Queried[v.step + 1]
       IN  IF v.step = 0 /\ auth.status # "ok"
               THEN /\ session' = [session EXCEPT ![w] = rollback(@)]
                    /\ last' = [route |-> "get_financial_overview",
                                status |-> auth.status]
                    /\ view' = v
                    /\ UNCHANGED <<db, pc, toggled, twice, config, tokens>>
           ELSE /\ view' = [v EXCEPT
                               !.step = @ + 1,
                               ![table] = NotRevoked(db[table]),
                               !.seen = @ \cup {get_financial_overview(db)}]
                /\ UNCHANGED <<db, session, pc, last, toggled, twice, config, tokens>>

\* GET /financial_overview, the first and the last stocktaking and the
\* balance between them.
get_financial_overview_stock(w) ==
    /\ pc[w] = Idle
    /\ view.step = 6
    /\ view' = [view EXCEPT !.step = 7, !.stock = stock_balance(db),
                            !.seen = @ \cup {get_financial_overview(db)}]
    /\ UNCHANGED <<db, session, pc, last, toggled, twice, config, tokens>>

\* GET /financial_overview, the sums and the response.
get_financial_overview_response(w) ==
    /\ pc[w] = Idle
    /\ view.step = 7
    /\ view' = [view EXCEPT
                   !.step = 8,
                   !.result =
                       financial_overview(
                           view.purchases, view.deposits, view.turnovers,
                           view.payoffs, view.refunds,
                           view.replenishmentcollections,
                           view.stock.profit, view.stock.loss)]
    /\ last' = [route |-> "get_financial_overview", status |-> "ok"]
    /\ UNCHANGED <<db, session, pc, toggled, twice, config, tokens>>

ProductIds == {1, 2}

InitProducts ==
    [p \in ProductIds |->
        [active |-> TRUE,
         pricehistory |->
            <<[price |-> IF p = 1 THEN 300 ELSE 150, timestamp |-> 0]>>]]

EmptyDb ==
    [users |-> InitUsers, products |-> InitProducts,
     purchases |-> <<>>, deposits |-> <<>>, turnovers |-> <<>>, payoffs |-> <<>>,
     refunds |-> <<>>, replenishmentcollections |-> <<>>,
     stocktakingcollections |-> <<>>]

Init ==
    /\ db = EmptyDb
    /\ session = [w \in Workers |-> <<>>]
    /\ pc = [w \in Workers |-> Idle]
    /\ last = [route |-> "none", status |-> "none"]
    /\ toggled = [t \in LedgerTables |-> <<>>]
    /\ twice = NotTwice
    /\ view = NoView
    /\ config = [MAINTENANCE |-> FALSE]
    /\ tokens = {}

TurnoverBody(a, c) == Body(("amount" :> JInt(a)) @@ ("comment" :> JStr(c)))
RevokeBody(b) == Body(("revoked" :> JBool(b)))

TurnoverIds == 1 .. MaxEntries + 1

-----------------------------------------------------------------------------
(* Concurrent requests: two workers create and revoke turnovers, each      *)
(* request reading the database when it starts and writing at its commit.  *)

\* The admin whose requests a worker serves.
AdminOf(w) == IF w = "w1" THEN TokenOf(1) ELSE TokenOf(2)

NextConcurrent ==
    \/ \E w \in Workers : create_turnover(w, AdminOf(w), TurnoverBody(-500, "c"))
    \/ \E w \in Workers, id \in TurnoverIds, b \in BOOLEAN :
            \E token \in {AdminOf(w), TokenOf(3)} :
                update_turnover(w, token, id, RevokeBody(b))
    \/ \E w \in Workers : update_turnover_commit(w)

SpecConcurrent == Init /\ [][NextConcurrent]_vars


-----------------------------------------------------------------------------
(* The ledger: one worker creates entries of every kind and revokes them.  *)

DepositBody(u, a, c) ==
    Body(("user_id" :> JInt(u)) @@ ("amount" :> JInt(a)) @@ ("comment" :> JStr(c)))

Line(p, a, t) == [product_id |-> p, amount |-> a, total_price |-> t]

\* A delivery of two products.
DeliveryOfTwo == <<Line(1, 100, 200), Line(2, 20, 20)>>

\* A delivery of two products, and a correction of a delivery.
Deliveries == {DeliveryOfTwo, <<Line(1, 5, -20)>>}

Next ==
    \/ \E a \in {-500, 200} :
            create_turnover("w1", TokenOf(2), TurnoverBody(a, "c"))
    \/ \E id \in DOMAIN db.turnovers, b \in BOOLEAN :
            update_turnover("w1", TokenOf(1), id, RevokeBody(b))
    \/ update_turnover_commit("w1")
    \/ \E a \in {-150, 300} : create_deposit("w1", TokenOf(1), DepositBody(3, a, "c"))
    \/ \E amount \in {0, 1} : create_purchase("w1", TokenOf(1), 3, 1, amount)
    \/ \E table \in EntryTables, a \in {-200, 100} :
            createEntry("w1", TokenOf(1), table, a, "c")
    \/ \E lines \in Deliveries :
            create_replenishmentcollection("w1", TokenOf(1), lines, "c")
    \/ \E table \in RevokeTables :
            \E id \in DOMAIN db[table] :
                toggleRevoke("w1", TokenOf(2), table, id, ~db[table][id].revoked)

Spec == Init /\ [][Next]_vars

-----------------------------------------------------------------------------
(* Requests that fail: a request of one worker is refused for its          *)
(* credential, its body or the entry it names, or fails at its commit.     *)

\* The body with the field admin_id added to it.
WithAdminId(body, admin_id) == Body(body.d @@ ("admin_id" :> JInt(admin_id)))

BadTurnoverBodies ==
    {NullBody, Body(EmptyDict), TurnoverBody(0, "c"),
     Body(("amount" :> JStr("c")) @@ ("comment" :> JStr("c"))),
     Body(("amount" :> JInt(200)) @@ ("comment" :> JStr("c"))
          @@ ("revoked" :> JBool(TRUE))),
     Body(("amount" :> JInt(200)) @@ ("color" :> JStr("c"))),
     Body("amount" :> JStr("c"))}

BadRevokeBodies ==
    {NullBody, Body(EmptyDict), Body(("revoked" :> JInt(1))),
     Body(("amount" :> JInt(200))), Body(("color" :> JStr("c")))}

Tokens ==
    {NoToken, MalformedToken, ExpiredToken, TokenWithoutUser, TokenOf(3),
     TokenOf(1)}

\* A delivery of product 2, and deliveries with a second line that names
\* no product, with a second line of amount 0, with a first line of a
\* negative amount, with lines whose prices add up to 0, and without lines.
DeliveryOfPriceZero == <<Line(2, 5, 20), Line(1, 5, -20)>>

BadDeliveries ==
    {<<Line(2, 20, 20)>>, <<Line(2, 20, 20), Line(3, 5, 5)>>,
     <<Line(2, 20, 20), Line(1, 0, 5)>>, <<Line(1, -10, 200), Line(2, 20, 20)>>,
     DeliveryOfPriceZero, <<>>}

NextErrors ==
    \/ \E token \in Tokens, a \in {200} :
            create_turnover("w1", token, TurnoverBody(a, "c"))
    \/ \E body \in BadTurnoverBodies : create_turnover("w1", TokenOf(1), body)
    \/ \E u \in {1, 3}, id \in TurnoverIds, b \in BOOLEAN :
            update_turnover("w1", TokenOf(u), id, RevokeBody(b))
    \/ \E body \in BadRevokeBodies : update_turnover("w1", TokenOf(1), 1, body)
    \/ update_turnover_commit("w1")
    \/ \E u \in {3, 6}, a \in {0, 300} :
            create_deposit("w1", TokenOf(1), DepositBody(u, a, "c"))
    \/ \E lines \in BadDeliveries :
            create_replenishmentcollection("w1", TokenOf(1), lines, "c")
    \/ \E active \in BOOLEAN : update_product("w1", TokenOf(1), 2, active)
    \/ \E token \in Tokens : list_products("w1", token)

SpecErrors == Init /\ [][NextErrors]_vars

-----------------------------------------------------------------------------
(* The creation of ledger entries: two administrators create entries of    *)
(* every kind, with amounts of zero, for users who may not get a deposit   *)
(* and with bodies that name the administrator.                            *)

CreateTurnoverBodies ==
    {TurnoverBody(200, "c"), TurnoverBody(0, "c"),
     WithAdminId(TurnoverBody(200, "c"), 2)}

\* A deposit for the customer that names the administrator it is made by.
BadDepositBodies == {WithAdminId(DepositBody(3, 300, "c"), 2)}

\* A delivery that is refused for its price, and a delivery of two products.
CreateDeliveries == {DeliveryOfPriceZero, DeliveryOfTwo}

NextCreate ==
    \/ \E u \in {1, 2}, body \in CreateTurnoverBodies :
            create_turnover("w1", TokenOf(u), body)
    \/ \E id \in DOMAIN db.turnovers :
            update_turnover("w1", TokenOf(1), id, RevokeBody(~db.turnovers[id].revoked))
    \/ update_turnover_commit("w1")
    \/ \E u \in 3 .. 6, a \in {0, 300} :
            create_deposit("w1", TokenOf(2), DepositBody(u, a, "c"))
    \/ \E body \in BadDepositBodies : create_deposit("w1", TokenOf(1), body)
    \/ \E amount \in {0, 1} : create_purchase("w1", TokenOf(1), 3, 1, amount)
    \/ \E table \in EntryTables, a \in {0, 100} :
            createEntry("w1", TokenOf(1), table, a, "c")
    \/ \E lines \in CreateDeliveries :
            create_replenishmentcollection("w1", TokenOf(1), lines, "c")

SpecCreate == Init /\ [][NextCreate]_vars

-----------------------------------------------------------------------------
(* Deliveries: an administrator takes products out of the assortment and   *)
(* creates replenishment collections, some of which are refused.           *)

AllDeliveries == BadDeliveries \cup Deliveries

NextDeliveries ==
    \/ \E p \in ProductIds, active \in BOOLEAN :
            update_product("w1", TokenOf(1), p, active)
    \/ \E lines \in AllDeliveries :
            create_replenishmentcollection("w1", TokenOf(1), lines, "c")
    \/ \E id \in DOMAIN db.replenishmentcollections :
            toggleRevoke("w1", TokenOf(2), "replenishmentcollections", id,
                         ~db.replenishmentcollections[id].revoked)

SpecDeliveries == Init /\ [][NextDeliveries]_vars

-----------------------------------------------------------------------------
(* Prices: administrators change the prices of the products while          *)
(* purchases are made and revoked.                                         *)

NextPrices ==
    \/ \E p \in ProductIds : create_purchase("w1", TokenOf(1), 3, p, 1)
    \/ \E price \in {200, 300} : update_product_price("w1", TokenOf(2), 1, price)
    \/ \E id \in DOMAIN db.purchases :
            toggleRevoke("w1", TokenOf(2), "purchases", id, ~db.purchases[id].revoked)

SpecPrices == Init /\ [][NextPrices]_vars

-----------------------------------------------------------------------------
(* Revocation: turnovers and deposits are created, revoked and made active *)
(* again by the administrators.                                            *)

NextRevoke ==
    \/ create_turnover("w1", TokenOf(2), TurnoverBody(-500, "c"))
    \/ \E id \in DOMAIN db.turnovers, b \in BOOLEAN :
            update_turnover("w1", TokenOf(1), id, RevokeBody(b))
    \/ update_turnover_commit("w1")
    \/ create_deposit("w1", TokenOf(1), DepositBody(3, 300, "c"))
    \/ \E id \in DOMAIN db.deposits, b \in BOOLEAN :
            toggleRevoke("w1", TokenOf(2), "deposits", id, b)

SpecRevoke == Init /\ [][NextRevoke]_vars

-----------------------------------------------------------------------------
(* Stocktakings: the products are counted while purchases and deliveries   *)
(* are made and revoked, a price changes and a product leaves the          *)
(* assortment.                                                             *)

\* The tables of the entries that change the stock.
StockTables == {"purchases", "replenishmentcollections"}

\* What is counted: 10 of product 1 and 5 of product 2, or 8 of product 1
\* when product 2 is out of the assortment.
Counts == {(1 :> 10) @@ (2 :> 5), (1 :> 8)}

NextStock ==
    \/ \E items \in Counts :
            create_stocktakingcollection("w1", TokenOf(1), items)
    \/ create_purchase("w1", TokenOf(1), 3, 1, 1)
    \/ create_replenishmentcollection("w1", TokenOf(1), <<Line(1, 2, 20)>>, "c")
    \/ update_product_price("w1", TokenOf(2), 1, 200)
    \/ update_product("w1", TokenOf(1), 2, FALSE)
    \/ \E table \in StockTables : toggleRevoke("w1", TokenOf(2), table, 1, TRUE)

SpecStock == Init /\ [][NextStock]_vars

-----------------------------------------------------------------------------
(* The gates: users log in, administrator rights are given and taken, and  *)
(* requests come with the tokens issued and with credentials that no login *)
(* has issued.                                                             *)

\* user.set_admin(is_admin, admin_id): the user gets or loses the rights of
\* an administrator.
set_admin(user, is_admin, admin_id) ==
    /\ \A w \in Workers : pc[w] = Idle
    /\ user \in DOMAIN db.users
    /\ db' = [db EXCEPT !.users[user].is_admin = is_admin]
    /\ last' = [route |-> "set_admin", status |-> "ok"]
    /\ UNCHANGED <<session, pc, toggled, twice, view, config, tokens>>

\* Credentials that no login has issued: no token, a token that cannot be
\* decoded, an expired token, a token without a user, and a token with a
\* valid signature whose user id is the id of no user.
TokenOfNobody == TokenOf(6)
Credentials == {NoToken, MalformedToken, ExpiredToken, TokenWithoutUser, TokenOfNobody}

NextGate ==
    \/ \E u \in {1, 2, 3} : login("w1", LoginBody(u, "1234"))
    \/ \E u \in {2, 3}, is_admin \in BOOLEAN : set_admin(u, is_admin, 1)
    \/ \E u \in tokens : create_turnover("w1", TokenOf(u), TurnoverBody(200, "c"))
    \/ \E token \in Credentials : create_turnover("w1", token, TurnoverBody(200, "c"))
    \/ \E u \in tokens : list_products("w1", TokenOf(u))
    \/ \E token \in Credentials : list_products("w1", token)

SpecGate == Init /\ [][NextGate]_vars

-----------------------------------------------------------------------------
(* Maintenance: users log in, and with their tokens two workers serve      *)
(* requests that switch the maintenance mode and that create and revoke    *)
(* turnovers.                                                              *)

NextMaintenance ==
    \/ \E w \in Workers, u \in {1, 3} :
            request(w, "login", login(w, LoginBody(u, "1234")))
    \/ \E w \in Workers, u \in tokens, b \in BOOLEAN :
            request(w, "maintenance", set_maintenance(w, TokenOf(u), StateBody(b)))
    \/ \E w \in Workers, u \in tokens :
            request(w, "create_turnover",
                    create_turnover(w, TokenOf(u), TurnoverBody(200, "c")))
    \/ \E w \in Workers, u \in tokens, id \in DOMAIN db.turnovers :
            request(w, "update_turnover",
                    update_turnover(w, TokenOf(u), id,
                                    RevokeBody(~db.turnovers[id].revoked)))
    \/ \E w \in Workers : update_turnover_commit(w)

SpecMaintenance == Init /\ [][NextMaintenance]_vars

-----------------------------------------------------------------------------
(* A financial overview computed by one worker while another commits.      *)

NextSnapshot ==
    \/ \E u \in {1, 3} : get_financial_overview_query("w2", TokenOf(u))
    \/ get_financial_overview_stock("w2")
    \/ get_financial_overview_response("w2")
    \/ \E a \in {-500, 200} : create_turnover("w1", TokenOf(1), TurnoverBody(a, "c"))
    \/ create_deposit("w1", TokenOf(1), DepositBody(3, 300, "c"))
    \/ \E id \in 1 .. MaxEntries, b \in BOOLEAN :
            update_turnover("w1", TokenOf(2), id, RevokeBody(b))
    \/ update_turnover_commit("w1")

SpecSnapshot == Init /\ [][NextSnapshot]_vars

-----------------------------------------------------------------------------
(* Properties of the revocation of turnovers.                              *)

Updated == [route |-> "update_turnover", status |-> "Updated turnover."]
Unchanged == [route |-> "update_turnover", status |-> "NothingHasChanged"]

\* C1: a request to update a turnover that asks for the state the turnover
\* is in, revoked or not, is answered NothingHasChanged and leaves the
\* database, and so the flag and the revoke history, as they were; nothing
\* stays pending in the session.
C1_SameStateIsRejected ==
    [][\A w \in Workers, u \in UserIds, id \in TurnoverIds, b \in BOOLEAN :
          (/\ adminRequired(TokenOf(u)).status = "ok"
           /\ id \in DOMAIN db.turnovers
           /\ db.turnovers[id].revoked = b
           /\ update_turnover(w, TokenOf(u), id, RevokeBody(b)))
          => (/\ last' = Unchanged
              /\ pc'[w] = Idle
              /\ session'[w] = <<>>
              /\ db' = db)]_vars

\* A revoked turnover was asked to be revoked again, and the request was
\* refused.
C1_Witness ==
    /\ last = Unchanged
    /\ Len(db.turnovers) = 1
    /\ db.turnovers[1].revoked
    /\ Len(db.turnovers[1].revokehistory) = 1

\* C2: once an active entry was revoked and the very next successful request
\* took the revocation back, the financial overview is what it was before
\* the two requests and the revoke history of the entry is longer by two.
C2_RevokeAndBackRestores ==
    twice.stage = 2 =>
        /\ get_financial_overview(db) = twice.before
        /\ Len(db[twice.table][twice.id].revokehistory) = twice.hlen + 2

\* A turnover that counts in the overview was revoked and taken back.
C2_Witness ==
    /\ twice.stage = 2
    /\ twice.table = "turnovers"
    /\ twice.before.total_balance # 0
    /\ last = Updated

\* C3: the revoked flag of every entry is the state of the last entry of
\* its revoke history, false when the history is empty; the history has one
\* entry per revoke request answered with success; an entry never revoked
\* is active and has an empty history.
C3_FlagFollowsHistory ==
    \A t \in LedgerTables : \A i \in DOMAIN db[t] :
        LET row == db[t][i]
            h == row.revokehistory
        IN  /\ row.revoked = (IF h = <<>> THEN FALSE ELSE h[Len(h)].revoked)
            /\ Len(h) = toggled[t][i]
            /\ toggled[t][i] = 0 => (~row.revoked /\ h = <<>>)

\* A turnover revoked, taken back and revoked again, next to a new one.
C3_Witness ==
    /\ Len(db.turnovers) = 2
    /\ db.turnovers[1].revoked
    /\ Len(db.turnovers[1].revokehistory) = 3
    /\ db.turnovers[2].revokehistory = <<>>

\* C4: the commit of a request of admin A to set turnover id to state s
\* appends the one entry (A, s) to the revoke history of the turnover and
\* sets its flag to s; the earlier history, the amount, the comment and the
\* creator of the turnover, and every other row of the database, stay.
C4_ToggleAppendsOneEntry ==
    [][\A w \in Workers :
          (/\ pc[w].at = "commit"
           /\ commit(w, session[w], "update_turnover", "Updated turnover.", pc[w]))
          => LET id == pc[w].id
                 old == db.turnovers[id]
                 new == [old EXCEPT
                            !.revoked = pc[w].revoked,
                            !.revokehistory =
                                Append(old.revokehistory,
                                       [admin_id |-> pc[w].admin,
                                        revoked |-> pc[w].revoked])]
             IN  db' = [db EXCEPT !.turnovers[id] = new]]_vars

\* The turnover -500 created by admin 2 was revoked by admin 1, next to a
\* deposit.
C4_Witness ==
    /\ last = Updated
    /\ Len(db.turnovers) = 1
    /\ Len(db.deposits) = 1
    /\ db.turnovers[1].amount = -500
    /\ db.turnovers[1].admin_id = 2
    /\ db.turnovers[1].revoked
    /\ db.turnovers[1].revokehistory = <<[admin_id |-> 1, revoked |-> TRUE]>>

-----------------------------------------------------------------------------
(* Properties of the financial overview.                                   *)

\* The database with the revoked ledger entries removed.
WithoutRevoked(d) ==
    [t \in DOMAIN d |->
        IF t \in LedgerTables THEN SelectSeq(d[t], LAMBDA row : ~row.revoked)
        ELSE d[t]]

\* C5: the revoked entries count in no item of the overview and in no
\* credit of a user: the overview, and every credit, of the database is that
\* of the database with the revoked entries removed.
C5_RevokedEntriesDoNotCount ==
    /\ get_financial_overview(db) = get_financial_overview(WithoutRevoked(db))
    /\ \A u \in UserIds : credit(db, u) = credit(WithoutRevoked(db), u)

\* A revoked deposit and a revoked purchase next to nothing else.
C5_Witness ==
    /\ \E i \in DOMAIN db.deposits : db.deposits[i].revoked
    /\ \E i \in DOMAIN db.purchases : db.purchases[i].revoked
    /\ get_financial_overview(db).total_balance = 0

ItemNames ==
    <<"Purchases", "Deposits", "Turnovers", "Replenishments", "Refunds",
      "Payoffs", "Stocktakings">>

SumItems(items) == SumSeq([i \in DOMAIN items |-> items[i].amount])

\* C6: the total balance is the sum of the items of the incomes minus the
\* sum of the items of the expenses, and the amounts of the incomes and of
\* the expenses are the sums of their seven items.
C6_TotalsAreSumsOfItems ==
    LET overview == get_financial_overview(db)
    IN  /\ Len(overview.incomes.items) = 7
        /\ Len(overview.expenses.items) = 7
        /\ overview.incomes.amount = SumItems(overview.incomes.items)
        /\ overview.expenses.amount = SumItems(overview.expenses.items)
        /\ overview.total_balance =
               SumItems(overview.incomes.items) - SumItems(overview.expenses.items)

\* Incomes from a turnover and a negative payoff, or expenses of the same.
C6_Witness ==
    /\ \E i \in DOMAIN db.payoffs : ~db.payoffs[i].revoked /\ db.payoffs[i].amount < 0
    /\ \E i \in DOMAIN db.turnovers : ~db.turnovers[i].revoked
    /\ get_financial_overview(db).total_balance # 0

\* The absolute values of the entries of the rows that are not revoked and
\* whose field has the given sign.
Share(rows, field, nonnegative) ==
    SumSeq([i \in DOMAIN rows |->
               IF ~rows[i].revoked /\ ((rows[i][field] >= 0) = nonnegative)
                   THEN (IF rows[i][field] >= 0 THEN rows[i][field]
                         ELSE 0 - rows[i][field])
                   ELSE 0])

\* C7: an entry that is not revoked counts, with its absolute value, in one
\* item: a purchase, deposit or turnover in the incomes when it is not
\* negative and in the expenses when it is, a replenishment collection,
\* refund or payoff in the incomes when it is negative and in the expenses
\* when it is not.
C7_SignDecidesTheItem ==
    LET overview == get_financial_overview(db)
        inc(k) == overview.incomes.items[k].amount
        exp(k) == overview.expenses.items[k].amount
    IN  /\ \A k \in 1 .. 7 : /\ overview.incomes.items[k].name = ItemNames[k]
                             /\ overview.expenses.items[k].name = ItemNames[k]
        /\ inc(1) = Share(db.purchases, "price", TRUE)
        /\ exp(1) = Share(db.purchases, "price", FALSE)
        /\ inc(2) = Share(db.deposits, "amount", TRUE)
        /\ exp(2) = Share(db.deposits, "amount", FALSE)
        /\ inc(3) = Share(db.turnovers, "amount", TRUE)
        /\ exp(3) = Share(db.turnovers, "amount", FALSE)
        /\ inc(4) = Share(db.replenishmentcollections, "price", FALSE)
        /\ exp(4) = Share(db.replenishmentcollections, "price", TRUE)
        /\ inc(5) = Share(db.refunds, "total_price", FALSE)
        /\ exp(5) = Share(db.refunds, "total_price", TRUE)
        /\ inc(6) = Share(db.payoffs, "amount", FALSE)
        /\ exp(6) = Share(db.payoffs, "amount", TRUE)

\* A purchase of price 300 and a deposit of -150: 300 of incomes from
\* purchases, 150 of expenses for deposits, a total balance of 150.
C7_Witness ==
    /\ Len(db.purchases) = 1 /\ db.purchases[1].price = 300
    /\ Len(db.deposits) = 1 /\ db.deposits[1].amount = -150
    /\ ~db.purchases[1].revoked /\ ~db.deposits[1].revoked
    /\ get_financial_overview(db).incomes.items[1] = Item("Purchases", 300)
    /\ get_financial_overview(db).expenses.items[2] = Item("Deposits", 150)
    /\ get_financial_overview(db).total_balance = 150


-----------------------------------------------------------------------------
(* Properties of the requests that fail.                                   *)

ErrorStatuses ==
    {"UnauthorizedAccess", "TokenIsInvalid", "TokenHasExpired", "InvalidJSON",
     "DataIsMissing", "WrongType", "UnknownField", "ForbiddenField",
     "InvalidAmount", "EntryNotFound", "UserIsNotVerified", "UserIsInactive",
     "NothingHasChanged", "CouldNotCreateEntry", "CouldNotUpdateEntry"}

\* C8: a request that ends with an error leaves the database as it was, and
\* once the worker has answered, nothing the request wrote is pending in its
\* session for a later request to commit.
C8_FailedRequestLeavesNoTrace ==
    [][/\ last'.status \in ErrorStatuses => db' = db
       /\ \A w \in Workers : pc'[w] = Idle => session'[w] = <<>>]_vars

\* A replenishment collection whose second line names no product was
\* refused after its first line had put product 2 back into the assortment.
C8_Witness ==
    /\ last = [route |-> "create_replenishmentcollection",
               status |-> "EntryNotFound"]
    /\ ~db.products[2].active
    /\ session["w1"] = <<>>
    /\ Len(db.turnovers) = 1

-----------------------------------------------------------------------------
(* Properties of concurrent requests.                                      *)

\* C9: requests to update one turnover are serialized: a request that asks
\* for the state the turnover has been given by a request committed
\* meanwhile does not succeed, so of two requests for the same new state at
\* most one appends to the revoke history.
C9_TogglesAreSerialized ==
    [][\A w \in Workers :
          (/\ pc[w].at = "commit"
           /\ commit(w, session[w], "update_turnover", "Updated turnover.", pc[w]))
          => db.turnovers[pc[w].id].revoked # pc[w].revoked]_vars

\* Two requests to revoke the active turnover 1 were both answered with
\* success: its revoke history holds two entries that revoke it.
C9_Witness ==
    /\ Len(db.turnovers) = 1
    /\ toggled.turnovers[1] = 2
    /\ db.turnovers[1].revokehistory =
           <<[admin_id |-> 1, revoked |-> TRUE], [admin_id |-> 2, revoked |-> TRUE]>>

\* C10: the financial overview answered is the overview of one state of
\* the database, committed at some moment between the first query of the
\* request and its response.
C10_OverviewIsOfOneState ==
    view.step = 8 => view.result \in view.seen

\* An overview that counts the turnover of 200 committed before its third
\* query, and not the deposit of 300 committed before that turnover.
C10_Witness ==
    /\ view.step = 8
    /\ view.result.total_balance = 200
    /\ Len(db.deposits) = 1 /\ ~db.deposits[1].revoked
    /\ Len(db.turnovers) = 1 /\ ~db.turnovers[1].revoked
    /\ toggled.turnovers[1] = 0

-----------------------------------------------------------------------------
(* Properties of the creation of ledger entries.                           *)

\* The signed amounts and prices of the rows of all ledger tables.
LedgerAmounts(d) ==
    Prices(d.purchases) \o AmountsOf(d.deposits) \o AmountsOf(d.turnovers)
    \o AmountsOf(d.payoffs) \o TotalPrices(d.refunds)
    \o Prices(d.replenishmentcollections)

\* The request was refused with the given error and wrote nothing.
Refused(status) == last'.status = status /\ db' = db

-----------------------------------------------------------------------------
(* Properties of the credential of a request.                              *)

\* The token decodes, has not expired and names a user who is an
\* administrator.
IsAdminToken(token) ==
    /\ token.kind = "valid"
    /\ token.uid \in DOMAIN db.users
    /\ db.users[token.uid].is_admin

\* The error the claim names for a token that is not one of an administrator.
ErrorOfToken(token) ==
    CASE token.kind = "missing" -> "UnauthorizedAccess"
      [] token.kind = "malformed" -> "TokenIsInvalid"
      [] token.kind = "nouser" -> "TokenIsInvalid"
      [] token.kind = "expired" -> "TokenHasExpired"
      [] token.kind = "valid" -> "UnauthorizedAccess"

\* C12: a route behind adminRequired runs only for a token that decodes, has
\* not expired and names an administrator; a request without a token is
\* refused with UnauthorizedAccess, one with a token that does not decode or
\* names no user with TokenIsInvalid, one with an expired token with
\* TokenHasExpired and one of a user who is no administrator with
\* UnauthorizedAccess, and none of them writes anything.
C12_OnlyAdministratorsPass ==
    [][\A token \in Tokens :
          create_turnover("w1", token, TurnoverBody(200, "c")) =>
              IF IsAdminToken(token)
                  THEN last'.status \in {"Created turnover.", "CouldNotCreateEntry"}
                  ELSE Refused(ErrorOfToken(token))]_vars

\* A request with an expired token was refused after a turnover was created.
C12_Witness ==
    /\ last = [route |-> "create_turnover", status |-> "TokenHasExpired"]
    /\ Len(db.turnovers) = 1

\* The administrators recorded in the rows of all ledger tables and in their
\* revoke histories.
RecordedAdmins(d) ==
    UNION {{d[t][i].admin_id : i \in DOMAIN d[t]}
           \cup UNION {{d[t][i].revokehistory[j].admin_id :
                            j \in DOMAIN d[t][i].revokehistory} : i \in DOMAIN d[t]}
           : t \in LedgerTables}

\* The last row of the table is new and records the administrator.
CreatedBy(table, admin_id) ==
    Len(db'[table]) > Len(db[table])
        => db'[table][Len(db'[table])].admin_id = admin_id

\* C13: the administrator recorded in a ledger entry and in a revoke history
\* entry is the administrator the gate resolved from the token of the request
\* that wrote it, a user who is an administrator; a turnover or a deposit
\* whose body names an admin_id is refused with UnknownField and not stored.
C13_AdminIsThePrincipal ==
    [][/\ \A a \in RecordedAdmins(db') : db'.users[a].is_admin
       /\ \A u \in {1, 2} :
            /\ create_turnover("w1", TokenOf(u), TurnoverBody(200, "c"))
                    => CreatedBy("turnovers", u)
            /\ create_deposit("w1", TokenOf(u), DepositBody(3, 300, "c"))
                    => CreatedBy("deposits", u)
            /\ \A a \in {1, 2} :
                    /\ create_turnover("w1", TokenOf(u),
                                       WithAdminId(TurnoverBody(200, "c"), a))
                            => Refused("UnknownField")
                    /\ create_deposit("w1", TokenOf(u),
                                      WithAdminId(DepositBody(3, 300, "c"), a))
                            => Refused("UnknownField")
       /\ \A id \in DOMAIN db.turnovers :
            Len(db'.turnovers[id].revokehistory) > Len(db.turnovers[id].revokehistory)
                => db'.turnovers[id].revokehistory[
                       Len(db'.turnovers[id].revokehistory)].admin_id
                   = pc["w1"].admin]_vars

\* A deposit naming administrator 2 was refused by the gate of administrator
\* 1 while the turnover of administrator 2 and its revocation by
\* administrator 1 are stored.
C13_Witness ==
    /\ last = [route |-> "create_deposit", status |-> "UnknownField"]
    /\ Len(db.turnovers) = 1
    /\ db.turnovers[1].admin_id = 2
    /\ Len(db.turnovers[1].revokehistory) = 1
    /\ db.turnovers[1].revokehistory[1].admin_id = 1

\* What the claim names for a token at the gate of the routes that answer
\* everybody: the error, or "ok" and the administrator passed to the route.
OptionalOfToken(token) ==
    CASE token.kind = "missing" -> [status |-> "ok", admin |-> 0]
      [] token.kind = "malformed" -> [status |-> "TokenIsInvalid", admin |-> 0]
      [] token.kind = "nouser" -> [status |-> "TokenIsInvalid", admin |-> 0]
      [] token.kind = "expired" -> [status |-> "TokenHasExpired", admin |-> 0]
      [] token.kind = "valid" ->
            [status |-> "ok", admin |-> IF IsAdminToken(token) THEN token.uid ELSE 0]

\* C14: a route behind adminOptional runs without an administrator for a
\* request without a token and for the token of a user who is no
\* administrator, and with the administrator for the token of one; a token
\* that does not decode or names no user is refused with TokenIsInvalid and
\* an expired token with TokenHasExpired.
C14_OptionalGateDegrades ==
    [][\A token \in Tokens :
          /\ adminOptional(token) = OptionalOfToken(token)
          /\ list_products("w1", token) =>
                /\ db' = db
                /\ last'.status =
                        IF OptionalOfToken(token).status # "ok"
                            THEN OptionalOfToken(token).status
                        ELSE IF OptionalOfToken(token).admin = 0
                            THEN "active products"
                        ELSE "all products"]_vars

\* The customer got the list of the products of the assortment while
\* product 2 is out of it.
C14_Witness ==
    /\ last = [route |-> "list_products", status |-> "active products"]
    /\ ~db.products[2].active

-----------------------------------------------------------------------------
(* Properties of the deposits.                                             *)

\* The error the claim names for a deposit for the user, or "ok".
ErrorOfUser(u) ==
    IF u \notin DOMAIN db.users THEN "EntryNotFound"
    ELSE IF ~db.users[u].is_verified THEN "UserIsNotVerified"
    ELSE IF ~db.users[u].active THEN "UserIsInactive"
    ELSE "ok"

\* C15: every deposit is one for a user who exists, is verified and is
\* active; a deposit for a user who does not exist is refused with
\* EntryNotFound, for one who is not verified with UserIsNotVerified, also
\* when the user is not active either, and for one who is not active with
\* UserIsInactive, each of them also when the amount is zero, and a refused
\* request adds no deposit.
C15_DepositsOnlyForValidUsers ==
    [][/\ \A i \in DOMAIN db'.deposits : ErrorOfUser(db'.deposits[i].user_id) = "ok"
       /\ \A u \in 3 .. 6, a \in {0, 300} :
            create_deposit("w1", TokenOf(2), DepositBody(u, a, "c")) =>
                IF ErrorOfUser(u) # "ok" THEN Refused(ErrorOfUser(u))
                ELSE a = 0 => Refused("InvalidAmount")]_vars

\* A deposit for the user who is not active was refused after a deposit for
\* the customer had been stored.
C15_Witness ==
    /\ last = [route |-> "create_deposit", status |-> "UserIsInactive"]
    /\ Len(db.deposits) = 1
    /\ ~db.users[5].is_verified /\ ~db.users[5].active

-----------------------------------------------------------------------------
(* Properties of the revocation of all ledger entries.                     *)

\* The request of an administrator to put the turnover into the opposite
\* state is accepted.
ToggleRequested(id) ==
    /\ update_turnover("w1", TokenOf(1), id, RevokeBody(~db.turnovers[id].revoked))
    /\ pc'["w1"] = Revoking("turnovers", id, ~db.turnovers[id].revoked, 1)

\* The commit of the accepted request puts the turnover into the state that
\* was asked for.
ToggleCommitted ==
    /\ update_turnover_commit("w1")
    /\ last'.status = "Updated turnover."
    /\ db'.turnovers[pc["w1"].id].revoked = pc["w1"].revoked

\* The request of an administrator puts the entry of another table into the
\* opposite state.
ToggleOf(table, id) ==
    /\ toggleRevoke("w1", TokenOf(2), table, id, ~db[table][id].revoked)
    /\ db'[table][id].revoked = ~db[table][id].revoked

\* C16: a ledger entry that was never toggled is not revoked, and no state
\* of an entry is final: whatever the state of an entry, and as long as
\* fewer than MaxHistory revoke history entries are stored, the request of
\* an administrator to put it into the opposite state is enabled, and so is
\* the commit that puts it there.
C16_NoTerminalState ==
    /\ \A t \in LedgerTables : \A i \in DOMAIN db[t] :
            db[t][i].revokehistory = <<>> => ~db[t][i].revoked
    /\ (pc["w1"] = Idle /\ HistorySize < MaxHistory) =>
            /\ \A id \in DOMAIN db.turnovers : ENABLED ToggleRequested(id)
            /\ \A t \in RevokeTables : \A id \in DOMAIN db[t] : ENABLED ToggleOf(t, id)
    /\ pc["w1"].at = "commit" => ENABLED ToggleCommitted

\* A turnover that was revoked and made active again, with one more toggle
\* left, next to a turnover that was never toggled.
C16_Witness ==
    /\ Len(db.turnovers) = 2
    /\ Len(db.turnovers[1].revokehistory) = 2
    /\ ~db.turnovers[1].revoked
    /\ db.turnovers[2].revokehistory = <<>>
    /\ pc["w1"] = Idle
    /\ HistorySize < MaxHistory

-----------------------------------------------------------------------------
(* Properties of the replenishment collections.                            *)

RECURSIVE SumOfLines(_)
SumOfLines(lines) ==
    IF lines = <<>> THEN 0 ELSE Head(lines).total_price + SumOfLines(Tail(lines))

\* The request stored a new replenishment collection.
CollectionCreated ==
    /\ last'.status = "Created replenishmentcollection."
    /\ Len(db'.replenishmentcollections) = Len(db.replenishmentcollections) + 1

\* C17: a replenishment collection that was created has the sum of the total
\* prices of its lines as its price (220 for lines of 200 and 20), records
\* the administrator of the request, holds the lines of the request in their
\* order, is not revoked and has an empty revoke history.
C17_CollectionIsSumOfLines ==
    [][\A lines \in Deliveries :
          create_replenishmentcollection("w1", TokenOf(1), lines, "c")
          /\ last'.status = "Created replenishmentcollection."
          => /\ CollectionCreated
             /\ LET row == db'.replenishmentcollections[
                               Len(db'.replenishmentcollections)]
                IN  /\ row.price = SumOfLines(lines)
                    /\ lines = DeliveryOfTwo => row.price = 220
                    /\ row.admin_id = 1
                    /\ row.replenishments = lines
                    /\ ~row.revoked
                    /\ row.revokehistory = <<>>]_vars

\* The collection of the lines of 200 and 20 was created.
C17_Witness ==
    /\ last.status = "Created replenishmentcollection."
    /\ Len(db.replenishmentcollections) = 1
    /\ db.replenishmentcollections[1].price = 220
    /\ Len(db.replenishmentcollections[1].replenishments) = 2

\* The products the lines name.
ProductsOf(lines) == {lines[i].product_id : i \in DOMAIN lines}

\* C18: after a replenishment collection was created, every product one of
\* its lines names is active, also one that was not active before, and every
\* other product is as it was.
C18_DeliveredProductsAreActive ==
    [][\A lines \in AllDeliveries :
          create_replenishmentcollection("w1", TokenOf(1), lines, "c")
          /\ CollectionCreated
          => \A p \in ProductIds :
                IF p \in ProductsOf(lines)
                    THEN /\ db'.products[p].active
                         /\ db'.products[p].pricehistory = db.products[p].pricehistory
                    ELSE db'.products[p] = db.products[p]]_vars

\* A collection with a line for product 2 was created while product 1, which
\* none of its lines names, is out of the assortment.
C18_Witness ==
    /\ last.status = "Created replenishmentcollection."
    /\ Len(db.replenishmentcollections) = 2
    /\ db.products[2].active
    /\ ~db.products[1].active

\* C19: the creation of a replenishment collection without lines is refused
\* with DataIsMissing, one with a line whose amount is not positive with
\* InvalidAmount and one with a line that names no product with
\* EntryNotFound, whichever line it is; the refused request stores no
\* collection, makes no product active and leaves nothing pending that
\* would.
C19_BadDeliveryIsRefusedWhole ==
    [][\A lines \in AllDeliveries :
          create_replenishmentcollection("w1", TokenOf(1), lines, "c") =>
              /\ lines = <<>> => Refused("DataIsMissing")
              /\ (\E i \in DOMAIN lines : lines[i].amount <= 0)
                    => Refused("InvalidAmount")
              /\ (\E i \in DOMAIN lines : lines[i].product_id \notin ProductIds)
                    => Refused("EntryNotFound")
              /\ last'.status \in ErrorStatuses
                    => db' = db /\ session'["w1"] = <<>>]_vars

\* A collection whose second line names no product was refused, and
\* product 2 of its first line is still out of the assortment.
C19_Witness ==
    /\ last = [route |-> "create_replenishmentcollection",
               status |-> "EntryNotFound"]
    /\ ~db.products[2].active
    /\ db.products[1].active
    /\ Len(db.replenishmentcollections) = 1

-----------------------------------------------------------------------------
(* Properties of the purchases.                                            *)

\* The price of the product after the step.
PriceAfter(p) ==
    db'.products[p].pricehistory[Len(db'.products[p].pricehistory)].price

\* C20: a purchase records the price the product has when the purchase is
\* created, and no later step, a change of the price of the product
\* included, changes the price a stored purchase records; the change of a
\* price leaves the purchases and the financial overview as they were.
C20_PurchaseKeepsItsPrice ==
    [][/\ \A i \in DOMAIN db.purchases :
            /\ i \in DOMAIN db'.purchases
            /\ db'.purchases[i].price = db.purchases[i].price
       /\ \A p \in ProductIds :
            create_purchase("w1", TokenOf(1), 3, p, 1)
            /\ Len(db'.purchases) > Len(db.purchases)
            => db'.purchases[Len(db'.purchases)].price = CurrentPrice(p)
       /\ \A price \in {200, 300} :
            update_product_price("w1", TokenOf(2), 1, price)
            /\ last'.status = "Updated product."
            => /\ PriceAfter(1) = price
               /\ PriceAfter(2) = CurrentPrice(2)
               /\ db'.purchases = db.purchases
               /\ get_financial_overview(db') = get_financial_overview(db)]_vars

\* A purchase of product 1 records the price 300 while the price of the
\* product is 200, and a later purchase records 200.
C20_Witness ==
    /\ Len(db.purchases) = 2
    /\ db.purchases[1].product_id = 1 /\ db.purchases[1].price = 300
    /\ db.purchases[2].product_id = 1 /\ db.purchases[2].price = 200
    /\ CurrentPrice(1) = 200

-----------------------------------------------------------------------------
(* Properties of the prices of the products.                               *)

\* The first n elements of the sequence.
Prefix(seq, n) == [i \in 1 .. n |-> seq[i]]

\* C21: the price history of a product only grows: every step leaves the
\* entries of every price history in place, and a price update that
\* succeeds adds exactly one entry, which carries the new price and is the
\* current price of the product (300 and an update to 200 give the history
\* 300, 200 and the current price 200).
C21_PriceHistoryIsAppendOnly ==
    [][/\ \A p \in ProductIds :
            /\ Len(db'.products[p].pricehistory) >= Len(db.products[p].pricehistory)
            /\ Prefix(db'.products[p].pricehistory, Len(db.products[p].pricehistory))
               = db.products[p].pricehistory
       /\ \A price \in {200, 300} :
            update_product_price("w1", TokenOf(2), 1, price)
            /\ last'.status = "Updated product."
            => /\ Len(db'.products[1].pricehistory)
                  = Len(db.products[1].pricehistory) + 1
               /\ PriceAfter(1) = price
               /\ db'.products[2] = db.products[2]]_vars

\* The price 300 of product 1 was changed to 200.
C21_Witness ==
    /\ last = [route |-> "update_product", status |-> "Updated product."]
    /\ Len(db.products[1].pricehistory) = 2
    /\ db.products[1].pricehistory[1].price = 300
    /\ db.products[1].pricehistory[2].price = 200
    /\ CurrentPrice(1) = 200

-----------------------------------------------------------------------------
(* Properties of the stocktakings.                                         *)

\* The amount of the named item of the items of the overview.
ItemOf(items, name) ==
    LET i == CHOOSE j \in DOMAIN items : items[j].name = name IN items[i].amount

\* The overview of the ledger entries alone.
LedgerOverview(d) ==
    financial_overview(NotRevoked(d.purchases), NotRevoked(d.deposits),
                       NotRevoked(d.turnovers), NotRevoked(d.payoffs),
                       NotRevoked(d.refunds),
                       NotRevoked(d.replenishmentcollections), 0, 0)

\* C22: while no stocktaking or only one stocktaking is stored, the item
\* Stocktakings of the overview is 0 in the incomes and in the expenses and
\* the total balance is the one of the ledger entries alone.
C22_OneStocktakingIsNoInterval ==
    Len(db.stocktakingcollections) <= 1 =>
        /\ stock_balance(db) = [profit |-> 0, loss |-> 0]
        /\ ItemOf(get_financial_overview(db).incomes.items, "Stocktakings") = 0
        /\ ItemOf(get_financial_overview(db).expenses.items, "Stocktakings") = 0
        /\ get_financial_overview(db).total_balance = LedgerOverview(db).total_balance

\* One stocktaking is stored, and a purchase made after it.
C22_Witness ==
    /\ Len(db.stocktakingcollections) = 1
    /\ Len(db.purchases) = 1
    /\ db.purchases[1].timestamp = 1
    /\ ~db.purchases[1].revoked
    /\ get_financial_overview(db).total_balance = 300

\* The sum of f[x] over the elements x of the set S.
RECURSIVE SumOver(_, _)
SumOver(S, f) ==
    IF S = {} THEN 0
    ELSE LET x == CHOOSE y \in S : TRUE IN f[x] + SumOver(S \ {x}, f)

\* The row was written after stocktaking start and before stocktaking end.
InInterval(row, start, end) == start <= row.timestamp /\ row.timestamp < end

\* The amount of product p bought between the two stocktakings in purchases
\* that are not revoked.
Bought(p, start, end) ==
    LET I == {i \in DOMAIN db.purchases :
                /\ db.purchases[i].product_id = p
                /\ ~db.purchases[i].revoked
                /\ InInterval(db.purchases[i], start, end)}
    IN  SumOver(I, [i \in I |-> db.purchases[i].amount])

\* The amount of product p delivered between the two stocktakings in
\* collections that are not revoked.
Delivered(p, start, end) ==
    LET C == {c \in DOMAIN db.replenishmentcollections :
                /\ ~db.replenishmentcollections[c].revoked
                /\ InInterval(db.replenishmentcollections[c], start, end)}
        OfProduct(c) ==
            LET lines == db.replenishmentcollections[c].replenishments
                L == {l \in DOMAIN lines : lines[l].product_id = p}
            IN  SumOver(L, [l \in L |-> lines[l].amount])
    IN  SumOver(C, [c \in C |-> OfProduct(c)])

\* What was counted at end minus what was expected there.
Delta(p, start, end) ==
    LET counted == db.stocktakingcollections[end].items
        expected == db.stocktakingcollections[start].items[p]
                    - Bought(p, start, end) + Delivered(p, start, end)
    IN  (IF p \in DOMAIN counted THEN counted[p] ELSE 0) - expected

\* The price of product p when stocktaking end was taken.
PriceAtEnd(p, end) ==
    LET history == db.products[p].pricehistory
        J == {j \in DOMAIN history : history[j].timestamp < end}
    IN  history[CHOOSE j \in J : \A k \in J : k <= j].price

\* C23: with two or more stocktakings, the profit of the overview is the
\* sum, over the products counted at the first one with a difference of 0
\* or more between the amount counted at the last one (0 when it was not
\* counted) and the amount expected there (the first count minus the
\* purchases plus the deliveries of the interval that are not revoked), of
\* the difference valued at the price of the product at the last
\* stocktaking; the loss is the sum of the absolute values of the negative
\* differences valued in the same way; neither is negative.
C23_ReconciliationOfTheInterval ==
    Len(db.stocktakingcollections) >= 2 =>
        LET start == 1
            end == Len(db.stocktakingcollections)
            P == DOMAIN db.stocktakingcollections[start].items
            Up == {p \in P : Delta(p, start, end) >= 0}
            Down == {p \in P : Delta(p, start, end) < 0}
            profit == SumOver(Up, [p \in Up |->
                                      Delta(p, start, end) * PriceAtEnd(p, end)])
            loss == SumOver(Down, [p \in Down |->
                                      (0 - Delta(p, start, end)) * PriceAtEnd(p, end)])
        IN  /\ stock_balance(db) = [profit |-> profit, loss |-> loss]
            /\ profit >= 0 /\ loss >= 0
            /\ ItemOf(get_financial_overview(db).incomes.items, "Stocktakings")
               = profit
            /\ ItemOf(get_financial_overview(db).expenses.items, "Stocktakings")
               = loss

\* Between two stocktakings one of product 1 was bought at 300 and its price
\* became 200; product 2 left the assortment and was not counted again: 1 of
\* product 1 at 200 and 5 of product 2 at 150 are missing.
C23_Witness ==
    /\ Len(db.stocktakingcollections) = 2
    /\ Len(db.purchases) = 1
    /\ db.purchases[1].timestamp = 1 /\ db.purchases[1].price = 300
    /\ CurrentPrice(1) = 200
    /\ stock_balance(db) = [profit |-> 0, loss |-> 950]

-----------------------------------------------------------------------------
(* Properties of the maintenance mode.                                     *)

\* C24: while the maintenance mode is on, no step changes the database: no
\* ledger entry, revoke history, user or product changes; the mode changes
\* only in the step of a set_maintenance request of an administrator that
\* succeeds.
C24_NothingChangesInMaintenance ==
    [][/\ config.MAINTENANCE => db' = db
       /\ config' # config =>
            /\ last'.route = "maintenance"
            /\ last'.status \in {"Turned maintenance mode on.",
                                 "Turned maintenance mode off."}
            /\ \E u \in tokens : db.users[u].is_admin]_vars

\* The maintenance mode is on, and the request that revoked turnover 1 was
\* answered with success.
C24_Witness ==
    /\ config.MAINTENANCE
    /\ last = [route |-> "update_turnover", status |-> "Updated turnover."]
    /\ Len(db.turnovers) = 1
    /\ db.turnovers[1].revoked

-----------------------------------------------------------------------------
(* Properties of the total balance.                                        *)

\* C25: the total balance of the overview is the sum of the credits of all
\* users plus the profit minus the loss of the stocktakings.
C25_BalanceIsCreditsPlusDrift ==
    get_financial_overview(db).total_balance
    = SumOver(UserIds, [u \in UserIds |-> credit(db, u)])
      + stock_balance(db).profit - stock_balance(db).loss

\* The only ledger entry is a turnover of 200: the total balance is 200 and
\* no user has a credit.
C25_Witness ==
    /\ LedgerSize = 1
    /\ Len(db.turnovers) = 1
    /\ db.turnovers[1].amount = 200 /\ ~db.turnovers[1].revoked
    /\ get_financial_overview(db).total_balance = 200
    /\ \A u \in UserIds : credit(db, u) = 0
    /\ stock_balance(db) = [profit |-> 0, loss |-> 0]

-----------------------------------------------------------------------------
(* Properties of the check of the fields of a request.                     *)

\* The fields of a turnover and of its update, with their types.
TurnoverFields == ("amount" :> "int") @@ ("comment" :> "str")
RevokeFields == "revoked" :> "bool"

\* The result the claim names for the data: a key that is neither required
\* nor optional, else a required key that is absent, else a value of the
\* wrong type.
FirstFailure(data, required, optional) ==
    IF DOMAIN data \ (DOMAIN required \cup DOMAIN optional) # {}
        THEN "UnknownField"
    ELSE IF DOMAIN required \ DOMAIN data # {} THEN "DataIsMissing"
    ELSE IF \E key \in DOMAIN data :
                ~isinstance(data[key], (required @@ optional)[key])
        THEN "WrongType"
    ELSE "ok"

\* C26: check_fields_and_types reports UnknownField for a key that is not
\* allowed, else DataIsMissing for a required key that is absent, else
\* WrongType for a value of the wrong type, and accepts every other body:
\* the request that creates a turnover is answered with that error and
\* writes nothing, and gets past the check only with a body that has none.
C26_FirstFailingCheck ==
    [][/\ \A body \in (BadTurnoverBodies \cup BadRevokeBodies) \ {NullBody} :
            /\ check_fields_and_types(body.d, TurnoverFields, EmptyDict)
               = FirstFailure(body.d, TurnoverFields, EmptyDict)
            /\ check_fields_and_types(body.d, EmptyDict, RevokeFields)
               = FirstFailure(body.d, EmptyDict, RevokeFields)
       /\ \A body \in BadTurnoverBodies \ {NullBody} :
            create_turnover("w1", TokenOf(1), body) =>
                IF FirstFailure(body.d, TurnoverFields, EmptyDict) # "ok"
                    THEN Refused(FirstFailure(body.d, TurnoverFields, EmptyDict))
                    ELSE last'.status \in {"InvalidAmount", "Created turnover.",
                                           "CouldNotCreateEntry"}]_vars

\* A body with the unknown key color and without the required key comment
\* was refused for the unknown key after a turnover was created.
C26_Witness ==
    /\ last = [route |-> "create_turnover", status |-> "UnknownField"]
    /\ Len(db.turnovers) = 1
    /\ FirstFailure(("amount" :> JInt(200)) @@ ("color" :> JStr("c")),
                    TurnoverFields, EmptyDict) = "UnknownField"
    /\ FirstFailure(EmptyDict, TurnoverFields, EmptyDict) = "DataIsMissing"

-----------------------------------------------------------------------------
(* Properties of the revoke history under concurrent requests.             *)

\* The values of a revoke history alternate and begin with true.
Alternates(h) ==
    \A j \in DOMAIN h : h[j].revoked = (j % 2 = 1)

\* C27: in every state, those reached by interleaved requests of two
\* workers included, the revoked values of the revoke history of every
\* turnover alternate strictly and begin with true.
C27_HistoryAlternatesUnderConcurrency ==
    \A id \in DOMAIN db.turnovers : Alternates(db.turnovers[id].revokehistory)

\* Both workers are idle again, and the revoke history of a turnover holds
\* two neighbouring entries with the same value.
C27_Witness ==
    /\ \A w \in Workers : pc[w] = Idle
    /\ \E id \in DOMAIN db.turnovers :
         LET h == db.turnovers[id].revokehistory
         IN  \E j \in DOMAIN h : j + 1 \in DOMAIN h /\ h[j].revoked = h[j + 1].revoked

-----------------------------------------------------------------------------
(* Properties of the gates when rights change and for every credential.    *)

\* C28: the gates read the administrator flag of the record of the user
\* when the request is made: a request with the token of a user who is no
\* administrator any more is refused with UnauthorizedAccess by the
\* mandatory gate and writes nothing, and runs without an administrator
\* behind the optional gate.
C28_RightsAreReadAtRequestTime ==
    [][\A u \in tokens :
          ~db.users[u].is_admin =>
              /\ adminRequired(TokenOf(u)).status = "UnauthorizedAccess"
              /\ adminOptional(TokenOf(u)) = [status |-> "ok", admin |-> 0]
              /\ create_turnover("w1", TokenOf(u), TurnoverBody(200, "c"))
                    => Refused("UnauthorizedAccess")
              /\ list_products("w1", TokenOf(u))
                    => (last'.status = "active products" /\ db' = db)]_vars

\* User 2 logged in and created a turnover as an administrator, lost the
\* rights, and the next request with the token was refused.
C28_Witness ==
    /\ 2 \in tokens
    /\ ~db.users[2].is_admin
    /\ Len(db.turnovers) = 1
    /\ db.turnovers[1].admin_id = 2
    /\ last = [route |-> "create_turnover", status |-> "UnauthorizedAccess"]

\* Every credential: those no login has issued and the tokens of the users.
AllCredentials == Credentials \cup {TokenOf(u) : u \in UserIds}

\* C29: for every credential, the token of a user id that is the id of no
\* user included, a request through the mandatory gate either reaches the
\* route with an administrator or is answered with UnauthorizedAccess,
\* TokenIsInvalid or TokenHasExpired, and with no other error.
C29_GateEndsInATypedError ==
    [][\A token \in AllCredentials :
          create_turnover("w1", token, TurnoverBody(200, "c")) =>
              \/ /\ adminRequired(token).status = "ok"
                 /\ db.users[adminRequired(token).admin].is_admin
                 /\ last'.status \in {"Created turnover.", "CouldNotCreateEntry"}
              \/ Refused("UnauthorizedAccess")
              \/ Refused("TokenIsInvalid")
              \/ Refused("TokenHasExpired")]_vars

\* A request with the token of a user id that is the id of no user ended in
\* an AttributeError, after a turnover was created with the token of user 1.
C29_Witness ==
    /\ last = [route |-> "create_turnover", status |-> "AttributeError"]
    /\ 1 \in tokens
    /\ Len(db.turnovers) = 1

-----------------------------------------------------------------------------
(* Properties of the way out of the maintenance mode.                      *)

\* An administrator who is verified and active and has a password.
CanLogIn(u) ==
    /\ db.users[u].is_admin
    /\ db.users[u].is_verified
    /\ db.users[u].active
    /\ db.users[u].password # ""

\* C30: the maintenance mode is no dead end: while it is on, every worker
\* that is idle answers the login of a verified, active administrator with
\* a password with a token, and answers the request of an administrator
\* who has a token to switch the maintenance mode off by switching it off;
\* a request for the state the flag has is answered with NothingHasChanged
\* and leaves the flag as it is.
C30_MaintenanceIsNoDeadEnd ==
    \A w \in Workers, u \in UserIds :
        (pc[w] = Idle /\ CanLogIn(u)) =>
            /\ config.MAINTENANCE =>
                  ENABLED (/\ request(w, "login",
                                      login(w, LoginBody(u, db.users[u].password)))
                           /\ last'.status = "token"
                           /\ u \in tokens')
            /\ (config.MAINTENANCE /\ u \in tokens) =>
                  ENABLED (/\ request(w, "maintenance",
                                      set_maintenance(w, TokenOf(u), StateBody(FALSE)))
                           /\ ~config'.MAINTENANCE)
            /\ u \in tokens =>
                  ~ENABLED (/\ request(w, "maintenance",
                                       set_maintenance(w, TokenOf(u),
                                                       StateBody(config.MAINTENANCE)))
                            /\ ~(/\ last'.status = "NothingHasChanged"
                                 /\ config' = config))

\* Administrator 1, the only user with a token, logged in again while the
\* maintenance mode was on; a turnover had been created before.
C30_Witness ==
    /\ config.MAINTENANCE
    /\ last = [route |-> "login", status |-> "token"]
    /\ tokens = {1}
    /\ Len(db.turnovers) = 1

=============================================================================
